---- MODULE Spec2Model ----
(***************************************************************************)
(* Tiered event cache of the LocalLifeAssistant backend                    *)
(* (backend/app/cache_manager.py) and the code that drives it.             *)
(*                                                                         *)
(* Time is counted in hours.  A Python dict is a function whose DOMAIN is  *)
(* the set of keys present; strings that the code transforms are sequences *)
(* of one-character strings; None / a list result is a record with a       *)
(* `none` flag.                                                            *)
(***************************************************************************)
EXTENDS Integers, Sequences, FiniteSets, TLC

VARIABLES
    now,            \* datetime.now(), in hours
    memory_cache,   \* CacheManager.memory_cache: cache key -> cache_data
    disk,           \* files of cache_dir: cache key -> file text
    firebase,       \* collection 'event_cache': cache key -> document
    tasks,          \* tasks created on the event loop and not yet run
    ret,            \* what the last call was, what it saw and what it returned
    fg,             \* the request handler running on the event loop
    fetcher,        \* the fetch_all_events run in the worker thread
    sched           \* the background scheduler set up at startup

vars == <<now, memory_cache, disk, firebase, tasks, ret, fg, fetcher, sched>>

\* the processes that take no part in a specification stay idle
procs == <<fg, fetcher, sched>>

----------------------------------------------------------------------------
(* Program constants *)

CACHE_TTL_HOURS == 8
REFRESH_INTERVAL_HOURS == 4

(* Bounds of the model *)

MaxTime == 8        \* the clock stops here
MaxEvents == 2      \* longest list the Listing Source returns
MaxPending == 1     \* most tasks waiting on the event loop

----------------------------------------------------------------------------
(* Strings as character sequences, and the cache key *)

LowerMap == [c \in {"S", "F", "M", "A"} |->
                CASE c = "S" -> "s" [] c = "F" -> "f"
                  [] c = "M" -> "m" [] c = "A" -> "a"]

\* str.lower()
Lower(s) == [i \in 1..Len(s) |->
                IF s[i] \in DOMAIN LowerMap THEN LowerMap[s[i]] ELSE s[i]]

\* str.replace(old, new) for one-character old and new
Replace(s, old, new) == [i \in 1..Len(s) |-> IF s[i] = old THEN new ELSE s[i]]

GetCacheKey(city, event_type) ==
    LET city_key  == Replace(Replace(Lower(city), " ", "_"), "/", "_")
        event_key == Replace(Lower(event_type), " ", "_")
    IN  city_key \o <<"_">> \o event_key

Cities == { <<"S", " ", "F">> }
EventTypes == { <<"M">> }

\* event_crawler.get_supported_cities() and get_supported_events(), as the
\* background fetch and the warm-up read them
SupportedCities == << <<"S", " ", "F">> >>
SupportedEvents == << <<"M">>, <<"A">>, <<"F">> >>

\* the default of the event_type parameter, "events"
DefaultEventType == <<"E">>

\* the key of every (city, event type) the model uses, derived once
CacheKeys ==
    [city \in Cities \cup { SupportedCities[i] : i \in DOMAIN SupportedCities },
     event_type \in EventTypes \cup { SupportedEvents[i] : i \in DOMAIN SupportedEvents }
                       \cup { DefaultEventType } |->
        GetCacheKey(city, event_type)]

----------------------------------------------------------------------------
(* Listing records and what the Listing Source can answer *)

Records == { [event_id |-> "e1", start_datetime |-> 10] }

\* a list of n copies of one record
ListOf(r, n) == [i \in 1..n |-> r]

\* the lists the model works with: empty, one record, and the longest
EventLists == { ListOf(r, n) : r \in Records, n \in {0, 1, MaxEvents} }

\* event_crawler.fetch_events_by_city: a list, or an exception
SourceRaise == [raised |-> TRUE, events |-> <<>>]
SourceReturn(events) == [raised |-> FALSE, events |-> events]
SourceOutcomes == { SourceRaise } \cup { SourceReturn(e) : e \in EventLists }

\* a Python result that is None or a list
None == [none |-> TRUE, events |-> <<>>]
Some(events) == [none |-> FALSE, events |-> events]

----------------------------------------------------------------------------
(* Dict helpers *)

DictSet(d, key, val) == [k \in DOMAIN d \cup {key} |-> IF k = key THEN val ELSE d[k]]
\* a del that removes nothing
DictKeep(d, key) == d
DictDel(d, key) == [k \in DOMAIN d \ {key} |-> d[k]]
EmptyDict == [k \in {} |-> 0]

----------------------------------------------------------------------------
(* Freshness *)

\* variants of _is_cache_valid with the comparison lost
IsCacheValidAlways(cached_at, t) == TRUE
IsCacheValidNever(cached_at, t) == FALSE
\* a comparison that still accepts an entry of age exactly ttl_hours
IsCacheValidInclusive(cached_at, t) == t - cached_at <= CACHE_TTL_HOURS

\* CacheManager._is_cache_valid
IsCacheValid(cached_at, t) == t - cached_at < CACHE_TTL_HOURS

----------------------------------------------------------------------------
(* The disk tier: json.dump / json.load of one file *)

JsonDump(d) ==
    << <<"city", d.city>>, <<"event_type", d.event_type>>,
       <<"events", d.events>>, <<"cached_at", d.cached_at>>,
       <<"count", d.count>>, <<"}", 0>> >>

\* the text left in the file when json.dump raises half way
JsonPartial(d) == SubSeq(JsonDump(d), 1, 3)

JsonComplete(text) == Len(text) > 0 /\ text[Len(text)][1] = "}"

JsonField(text, name) ==
    LET i == CHOOSE j \in 1..Len(text) : text[j][1] = name IN text[i][2]

\* a load that loses the events list
JsonLoadNoEvents(text) ==
    [city       |-> JsonField(text, "city"),
     event_type |-> JsonField(text, "event_type"),
     events     |-> <<>>,
     cached_at  |-> JsonField(text, "cached_at"),
     count      |-> JsonField(text, "count")]

JsonLoad(text) ==
    [city       |-> JsonField(text, "city"),
     event_type |-> JsonField(text, "event_type"),
     events     |-> JsonField(text, "events"),
     cached_at  |-> JsonField(text, "cached_at"),
     count      |-> JsonField(text, "count")]

DiskOutcomes == {"ok", "unchanged", "partial"}

\* CacheManager._save_cache_to_disk; every exception is logged and dropped
SaveCacheToDisk(dsk, city, cache_data, event_type, dw) ==
    LET key == CacheKeys[city, event_type] IN
    CASE dw = "ok"        -> DictSet(dsk, key, JsonDump(cache_data))
      [] dw = "partial"   -> DictSet(dsk, key, JsonPartial(cache_data))
      [] dw = "unchanged" -> dsk

----------------------------------------------------------------------------
(* The store: st = [mem, disk, fb, tasks].  Each operation of CacheManager  *)
(* is an operator from a store and the call's inputs to the store it leaves *)
(* and the value it returns.                                                *)

\* the task body CacheManager._cache_events_to_firebase_async
FirebaseWriteTask(key, cache_data) ==
    [kind |-> "firebase_write", key |-> key, data |-> cache_data]

\* cache_events with the count left at zero
CacheEventsBadCount(st, city, events, event_type, t, dw, loop) ==
    LET cache_data == [city |-> city, event_type |-> event_type,
                       events |-> events, cached_at |-> t, count |-> 0]
        cache_key == CacheKeys[city, event_type]
        mem1  == DictSet(st.mem, cache_key, cache_data)
        disk1 == SaveCacheToDisk(st.disk, city, cache_data, event_type, dw)
    IN  IF loop
        THEN [st |-> [st EXCEPT !.mem = mem1, !.disk = disk1,
                         !.tasks = Append(@, FirebaseWriteTask(cache_key, cache_data))],
              ok |-> TRUE]
        ELSE [st |-> [st EXCEPT !.mem = mem1, !.disk = disk1],
              ok |-> FALSE]

\* CacheManager.cache_events.  loop: the calling thread has a running event
\* loop; without one asyncio.create_task raises RuntimeError, which the
\* method's except turns into False.
CacheEvents(st, city, events, event_type, t, dw, loop) ==
    LET cache_data == [city |-> city, event_type |-> event_type,
                       events |-> events, cached_at |-> t,
                       count |-> Len(events)]
        cache_key == CacheKeys[city, event_type]
        mem1  == DictSet(st.mem, cache_key, cache_data)
        disk1 == SaveCacheToDisk(st.disk, city, cache_data, event_type, dw)
    IN  IF loop
        THEN [st |-> [st EXCEPT !.mem = mem1, !.disk = disk1,
                         !.tasks = Append(@, FirebaseWriteTask(cache_key, cache_data))],
              ok |-> TRUE]
        ELSE [st |-> [st EXCEPT !.mem = mem1, !.disk = disk1],
              ok |-> FALSE]

\* a fetch that caches and returns an empty answer like any other
FetchAndCacheEmptyToo(st, city, event_type, src, t, dw, loop) ==
    IF src.raised
    THEN [st |-> st, result |-> None, calls |-> 1]
    ELSE [st |-> CacheEvents(st, city, src.events, event_type, t, dw, loop).st,
          result |-> Some(src.events), calls |-> 1]

\* a fetch that leaves an empty entry behind when the Listing Source fails
FetchAndCacheOnFailure(st, city, event_type, src, t, dw, loop) ==
    IF src.raised \/ src.events = <<>>
    THEN [st |-> CacheEvents(st, city, <<>>, event_type, t, dw, loop).st,
          result |-> None, calls |-> 1]
    ELSE [st |-> CacheEvents(st, city, src.events, event_type, t, dw, loop).st,
          result |-> Some(src.events), calls |-> 1]

\* CacheManager._fetch_and_cache_fresh_events; src is the answer of
\* event_crawler.fetch_events_by_city
FetchAndCacheFreshEvents(st, city, event_type, src, t, dw, loop) ==
    IF src.raised
    THEN [st |-> st, result |-> None, calls |-> 1]
    ELSE IF src.events # <<>>
         THEN [st |-> CacheEvents(st, city, src.events, event_type, t, dw, loop).st,
               result |-> Some(src.events), calls |-> 1]
         ELSE [st |-> st, result |-> None, calls |-> 1]

\* get_cached_events, the memory tier: a valid entry is returned, an
\* expired one is deleted
MemoryTier(st, cache_key, t) ==
    LET has   == cache_key \in DOMAIN st.mem
        valid == has /\ IsCacheValid(st.mem[cache_key].cached_at, t)
    IN  IF valid
        THEN [st |-> st, done |-> TRUE, result |-> Some(st.mem[cache_key].events)]
        ELSE IF has
        THEN [st |-> [st EXCEPT !.mem = DictDel(@, cache_key)],
              done |-> FALSE, result |-> None]
        ELSE [st |-> st, done |-> FALSE, result |-> None]

\* a file tier where an unreadable file ends the lookup with None
DiskTierAbortOnCorrupt(st, cache_key, t) ==
    LET has      == cache_key \in DOMAIN st.disk
        readable == has /\ JsonComplete(st.disk[cache_key])
        data     == JsonLoad(st.disk[cache_key])
    IN  IF ~has
        THEN [st |-> st, done |-> FALSE, result |-> None]
        ELSE IF ~readable
        THEN [st |-> st, done |-> TRUE, result |-> None]
        ELSE IF IsCacheValid(data.cached_at, t)
        THEN [st |-> [st EXCEPT !.mem = DictSet(@, cache_key, data)],
              done |-> TRUE, result |-> Some(data.events)]
        ELSE [st |-> [st EXCEPT !.disk = DictDel(@, cache_key)],
              done |-> FALSE, result |-> None]

\* get_cached_events, the file tier: a valid file is loaded into memory and
\* returned, an expired one is removed, an unreadable one is logged and
\* left in place
DiskTier(st, cache_key, t) ==
    LET has      == cache_key \in DOMAIN st.disk
        readable == has /\ JsonComplete(st.disk[cache_key])
        data     == JsonLoad(st.disk[cache_key])
    IN  IF ~readable
        THEN [st |-> st, done |-> FALSE, result |-> None]
        ELSE IF IsCacheValid(data.cached_at, t)
        THEN [st |-> [st EXCEPT !.mem = DictSet(@, cache_key, data)],
              done |-> TRUE, result |-> Some(data.events)]
        ELSE [st |-> [st EXCEPT !.disk = DictDel(@, cache_key)],
              done |-> FALSE, result |-> None]

\* a Firestore tier that returns a hit without keeping it locally
FirebaseTierNoPromote(st, city, event_type, crawler, fbUp, src, t, dw, loop) ==
    LET cache_key == CacheKeys[city, event_type]
        exists    == cache_key \in DOMAIN st.fb
        data      == st.fb[cache_key]
        fetched   == FetchAndCacheFreshEvents(st, city, event_type, src, t, dw, loop)
    IN  IF ~fbUp
        THEN [st |-> st, result |-> None, calls |-> 0, served |-> "error"]
        ELSE IF ~exists \/ ~IsCacheValid(data.cached_at, t)
        THEN IF crawler
             THEN [st |-> fetched.st, result |-> fetched.result,
                   calls |-> fetched.calls, served |-> "fetch"]
             ELSE [st |-> st, result |-> None, calls |-> 0, served |-> "miss"]
        ELSE [st |-> st,
              result |-> Some(data.events), calls |-> 0, served |-> "firebase"]

\* get_cached_events, the Firestore tier and the fresh fetch.  fbUp: the
\* Firestore read answers; it raises when db is None or the store cannot be
\* reached, and the method's outer except returns None.
FirebaseTier(st, city, event_type, crawler, fbUp, src, t, dw, loop) ==
    LET cache_key == CacheKeys[city, event_type]
        exists    == cache_key \in DOMAIN st.fb
        data      == st.fb[cache_key]
        fetched   == FetchAndCacheFreshEvents(st, city, event_type, src, t, dw, loop)
    IN  IF ~fbUp
        THEN [st |-> st, result |-> None, calls |-> 0, served |-> "error"]
        ELSE IF ~exists \/ ~IsCacheValid(data.cached_at, t)
        THEN IF crawler
             THEN [st |-> fetched.st, result |-> fetched.result,
                   calls |-> fetched.calls, served |-> "fetch"]
             ELSE [st |-> st, result |-> None, calls |-> 0, served |-> "miss"]
        ELSE [st |-> [st EXCEPT !.mem = DictSet(@, cache_key, data),
                        !.disk = SaveCacheToDisk(@, city, data, event_type, dw)],
              result |-> Some(data.events), calls |-> 0, served |-> "firebase"]

\* CacheManager.get_cached_events.  crawler: an event_crawler was passed.
\* served names the return statement taken; calls and fbCalls count the
\* Listing Source calls and the Firestore reads made.
GetCachedEvents(st, city, event_type, crawler, fbUp, src, t, dw, loop) ==
    LET cache_key == CacheKeys[city, event_type]
        m == MemoryTier(st, cache_key, t)
        d == DiskTier(m.st, cache_key, t)
        f == FirebaseTier(d.st, city, event_type, crawler, fbUp, src, t, dw, loop)
    IN  IF m.done
        THEN [st |-> m.st, result |-> m.result, calls |-> 0, fbCalls |-> 0,
              served |-> "memory"]
        ELSE IF d.done
        THEN [st |-> d.st, result |-> d.result, calls |-> 0, fbCalls |-> 0,
              served |-> "disk"]
        ELSE [st |-> f.st, result |-> f.result, calls |-> f.calls, fbCalls |-> 1,
              served |-> f.served]

----------------------------------------------------------------------------
(* State machine *)

Store == [mem |-> memory_cache, disk |-> disk, fb |-> firebase, tasks |-> tasks]

Commit(st) ==
    /\ memory_cache' = st.mem
    /\ disk' = st.disk
    /\ firebase' = st.fb
    /\ tasks' = st.tasks

\* what each tier held for a key when a call began: a set with at most one
\* element (the file is given as its text)
Pre(key) ==
    [mem  |-> IF key \in DOMAIN memory_cache THEN {memory_cache[key]} ELSE {},
     disk |-> IF key \in DOMAIN disk THEN {disk[key]} ELSE {},
     fb   |-> IF key \in DOMAIN firebase THEN {firebase[key]} ELSE {}]

NoPre == [mem |-> {}, disk |-> {}, fb |-> {}]

\* the key the call that just ended answered from Firestore, if it did
Prev == IF ret.op = "lookup" /\ ret.served = "firebase" THEN {ret.key} ELSE {}

NoCall ==
    [op |-> "none", key |-> <<>>, crawler |-> FALSE, fbUp |-> FALSE,
     src |-> SourceRaise, dw |-> "ok", loop |-> FALSE, events |-> <<>>,
     data |-> {}, result |-> None, ok |-> FALSE, calls |-> 0, fbCalls |-> 0,
     served |-> "none", pre |-> NoPre, promoted |-> {}]

\* no handler, no fetch_all_events run and no scheduler yet
Idle == [pc |-> "idle"]

Init ==
    /\ now = 0
    /\ memory_cache = EmptyDict
    /\ disk = EmptyDict
    /\ firebase = EmptyDict
    /\ tasks = <<>>
    /\ ret = NoCall
    /\ fg = Idle /\ fetcher = Idle /\ sched = Idle

\* a request handler on the event loop calls get_cached_events
\* (main.py stream_chat_response passes the crawler; the warm-up passes None).
\* fbUp is false when firebase_config.db is None or Firestore cannot be
\* reached.
Lookup(city, event_type, crawler, fbUp, src, dw) ==
    LET key  == CacheKeys[city, event_type]
        r    == GetCachedEvents(Store, city, event_type, crawler, fbUp, src,
                                now, dw, TRUE)
    IN  /\ Len(r.st.tasks) <= MaxPending
        \* inputs the call never consults are fixed
        /\ r.fbCalls = 0 => fbUp
        /\ (r.fbCalls = 0 \/ ~crawler \/ r.served = "firebase") => src = SourceRaise
        /\ r.served \notin {"fetch", "firebase"} => dw = "ok"
        /\ r.result = None /\ r.served = "fetch" => dw = "ok"
        /\ Commit(r.st)
        /\ ret' = [NoCall EXCEPT !.op = "lookup", !.key = key,
                      !.crawler = crawler, !.fbUp = fbUp, !.src = src,
                      !.dw = dw, !.loop = TRUE, !.result = r.result,
                      !.calls = r.calls, !.fbCalls = r.fbCalls,
                      !.served = r.served, !.pre = Pre(key), !.promoted = Prev]
        /\ UNCHANGED <<now, procs>>

\* cache_events called with a fetched, non-empty list: from a coroutine
\* (loop) or from the scheduler's worker thread (no loop)
Put(city, event_type, events, dw, loop) ==
    LET key == CacheKeys[city, event_type]
        r   == CacheEvents(Store, city, events, event_type, now, dw, loop)
    IN  /\ Len(r.st.tasks) <= MaxPending
        /\ events # <<>>
        /\ Commit(r.st)
        /\ ret' = [NoCall EXCEPT !.op = "cache_events", !.key = key,
                      !.dw = dw, !.loop = loop, !.events = events,
                      !.ok = r.ok]
        /\ UNCHANGED <<now, procs>>

\* the event loop runs the oldest waiting _cache_events_to_firebase_async;
\* a failing Firestore write is logged and dropped
RunTask(fbUp) ==
    /\ tasks # <<>>
    /\ LET task == Head(tasks)
       IN  /\ firebase' = IF fbUp THEN DictSet(firebase, task.key, task.data)
                                   ELSE firebase
           /\ ret' = [NoCall EXCEPT !.op = "task", !.key = task.key,
                         !.fbUp = fbUp, !.data = {task.data}]
    /\ tasks' = Tail(tasks)
    /\ UNCHANGED <<now, memory_cache, disk, procs>>

\* time passes
Tick ==
    /\ now + REFRESH_INTERVAL_HOURS <= MaxTime
    /\ now' = now + REFRESH_INTERVAL_HOURS
    /\ ret' = [NoCall EXCEPT !.op = "tick"]
    /\ UNCHANGED <<memory_cache, disk, firebase, tasks, procs>>

\* the process starts again and CacheManager.__init__ runs; on a fresh host
\* the cache directory is empty
Restart(freshHost) ==
    /\ memory_cache' = EmptyDict
    /\ tasks' = <<>>
    /\ disk' = IF freshHost THEN EmptyDict ELSE disk
    /\ ret' = [NoCall EXCEPT !.op = "restart"]
    /\ UNCHANGED <<now, firebase, procs>>

Next ==
    \/ \E city \in Cities, event_type \in EventTypes, crawler \in BOOLEAN,
          fbUp \in BOOLEAN, src \in SourceOutcomes, dw \in DiskOutcomes :
            Lookup(city, event_type, crawler, fbUp, src, dw)
    \/ \E city \in Cities, event_type \in EventTypes, events \in EventLists,
          dw \in DiskOutcomes, loop \in BOOLEAN :
            Put(city, event_type, events, dw, loop)
    \/ \E fbUp \in BOOLEAN : RunTask(fbUp)
    \/ Tick
    \/ \E freshHost \in BOOLEAN : Restart(freshHost)

Spec == Init /\ [][Next]_vars

----------------------------------------------------------------------------
(* Vocabulary of the properties.  These are stated from the specification  *)
(* and do not use the operators that model the code's freshness test or    *)
(* its file reading.                                                       *)

\* the specification's freshness rule: now - cached_at < TTL
Fresh(e) == now - e.cached_at < CACHE_TTL_HOURS

\* every entry put can build
CacheDatas ==
    [city : Cities, event_type : EventTypes, events : EventLists \ {<<>>},
     cached_at : 0..MaxTime, count : 0..MaxEvents]

LookupDone == ret.op = "lookup"

\* the entries the tiers held for the key when the call began
HeldMem  == ret.pre.mem
HeldDisk == { e \in CacheDatas : JsonDump(e) \in ret.pre.disk }
HeldFb   == ret.pre.fb
HeldAny  == HeldMem \cup HeldDisk \cup HeldFb

\* a file that is not the text of any entry
CorruptFileHeld ==
    ret.pre.disk # {} /\ \A x \in ret.pre.disk : \A e \in CacheDatas : x # JsonDump(e)

\* the store held entries for the key, and all of them past the TTL
PreStale == HeldAny # {} /\ \A e \in HeldAny : ~Fresh(e)

NoFresh(S) == \A e \in S : ~Fresh(e)

\* what a fetch hands back: the records, or a failure when the Listing
\* Source raised or returned nothing
FetchResult(src) ==
    IF ~src.raised /\ src.events # <<>> THEN Some(src.events) ELSE None

\* the entries the local tiers hold for the key now
MemNow(key)  == IF key \in DOMAIN memory_cache THEN {memory_cache[key]} ELSE {}
DiskNow(key) == IF key \in DOMAIN disk
                THEN { e \in CacheDatas : JsonDump(e) = disk[key] } ELSE {}
FbNow(key)   == IF key \in DOMAIN firebase THEN {firebase[key]} ELSE {}

RefreshTasks(key) ==
    { i \in DOMAIN tasks : tasks[i].kind = "refresh" /\ tasks[i].key = key }

----------------------------------------------------------------------------
(* C1 *)

----------------------------------------------------------------------------
(* C2 *)

----------------------------------------------------------------------------
(* C3 *)

\* C3: when no tier holds anything for the key and the Listing Source call
\* fails (raises or returns nothing), lookup returns a failure and afterwards
\* no tier holds an entry for the key.
C3_ColdMissPropagates ==
    (LookupDone /\ ret.crawler /\ ret.pre = NoPre /\ FetchResult(ret.src) = None) =>
        /\ ret.result = None
        /\ ret.key \notin DOMAIN memory_cache
        /\ ret.key \notin DOMAIN disk
        /\ ret.key \notin DOMAIN firebase

\* a cold key, and a Listing Source call that was made and failed
C3_Witness ==
    /\ LookupDone /\ ret.crawler /\ ret.pre = NoPre
    /\ ret.calls = 1 /\ FetchResult(ret.src) = None

----------------------------------------------------------------------------
(* C4 *)

\* the entry a cold fetch stores: in memory, on disk when the file write
\* succeeds, and as the newest waiting remote write
ColdFetchStored ==
    /\ ret.calls = 1
    /\ ret.result = Some(ret.src.events)
    /\ ret.key \in DOMAIN memory_cache
    /\ memory_cache[ret.key].events = ret.src.events
    /\ memory_cache[ret.key].count = Len(ret.src.events)
    /\ memory_cache[ret.key].cached_at = now
    /\ ret.dw = "ok" => DiskNow(ret.key) = {memory_cache[ret.key]}
    /\ tasks # <<>> /\ tasks[Len(tasks)].data = memory_cache[ret.key]

\* C4 as stated: a lookup on a key that every tier reports absent, with a
\* Listing Source call that returns, makes one call, stores an entry with
\* those records and count = len(records), and returns them - for every
\* record sequence the source returns.
C4_ColdFetchAnySequence ==
    (LookupDone /\ ret.crawler /\ ret.pre = NoPre /\ ret.fbUp /\ ~ret.src.raised)
        => ColdFetchStored

\* C4 (amended): the same, for every non-empty record sequence the source
\* returns; an empty answer is treated as a failed fetch.
C4_ColdFetchNonEmpty ==
    (LookupDone /\ ret.crawler /\ ret.pre = NoPre /\ ret.fbUp /\ ~ret.src.raised
        /\ ret.src.events # <<>>) => ColdFetchStored

\* a cold fetch of two records
C4_Witness ==
    /\ LookupDone /\ ret.crawler /\ ret.pre = NoPre /\ ret.fbUp
    /\ ~ret.src.raised /\ Len(ret.src.events) = 2
    /\ ret.dw = "ok"

----------------------------------------------------------------------------
(* C5 *)

\* C5: a lookup of a key whose stored entry is valid returns that entry's
\* records and makes no Listing Source call.  The stored entry is the one
\* of the first tier, in the order memory, disk, remote, that holds a valid
\* entry (the remote tier counts when its read answers).
C5_ValidHit ==
    LookupDone =>
        /\ \A e \in HeldMem : Fresh(e) =>
              ret.result = Some(e.events) /\ ret.calls = 0
        /\ NoFresh(HeldMem) => \A e \in HeldDisk : Fresh(e) =>
              ret.result = Some(e.events) /\ ret.calls = 0
        /\ (NoFresh(HeldMem) /\ NoFresh(HeldDisk) /\ ret.fbUp) =>
              \A e \in HeldFb : Fresh(e) =>
                  ret.result = Some(e.events) /\ ret.calls = 0

\* a lookup some hours after the entry was cached, answered from it
C5_Witness ==
    /\ LookupDone /\ ret.crawler
    /\ \E e \in HeldMem : Fresh(e) /\ e.cached_at < now /\ ret.result = Some(e.events)

----------------------------------------------------------------------------
(* C6 *)

\* C6: when memory and disk miss and the remote read raises, a lookup with
\* a crawler falls through to a fresh fetch and returns the fetched records.
C6_RemoteReadFailureIsMiss ==
    (LookupDone /\ ret.crawler /\ NoFresh(HeldMem) /\ NoFresh(HeldDisk)
        /\ ~ret.fbUp /\ FetchResult(ret.src) # None) =>
        ret.result = Some(ret.src.events)

----------------------------------------------------------------------------
(* C7 *)

\* C7: an unreadable file for a key is a miss at the disk tier only: when
\* memory has no valid entry and the remote tier holds a valid one, the
\* lookup returns the remote entry's records and keeps the entry in memory
\* and (when the file write succeeds) on disk.
C7_CorruptDiskIsDiskMiss ==
    (LookupDone /\ NoFresh(HeldMem) /\ CorruptFileHeld /\ ret.fbUp) =>
        \A e \in HeldFb : Fresh(e) =>
            /\ ret.result = Some(e.events)
            /\ MemNow(ret.key) = {e}
            /\ ret.dw = "ok" => DiskNow(ret.key) = {e}

\* an unreadable file, a valid remote entry, and the file rewritten
C7_Witness ==
    /\ LookupDone /\ NoFresh(HeldMem) /\ CorruptFileHeld /\ ret.fbUp
    /\ \E e \in HeldFb : Fresh(e)
    /\ ret.dw = "ok"

----------------------------------------------------------------------------
(* C8 *)

\* C8: whenever the memory and disk writes succeed, cache_events reports
\* success and leaves the entry in memory and on disk, whether or not the
\* remote write can be scheduled.
C8_PutSucceedsWithoutRemote ==
    (ret.op = "cache_events" /\ ret.dw = "ok") =>
        /\ ret.ok
        /\ \E e \in MemNow(ret.key) : e.events = ret.events /\ DiskNow(ret.key) = {e}

----------------------------------------------------------------------------
(* C9 *)

----------------------------------------------------------------------------
(* C10 *)

\* C10: a get answered by the remote tier only leaves the entry in memory
\* and (when the file write succeeds) on disk, and the get of the same key
\* that follows it is answered from memory: no remote read, no Listing
\* Source call.
C10_Promotion ==
    /\ (LookupDone /\ NoFresh(HeldMem) /\ NoFresh(HeldDisk) /\ ret.fbUp) =>
          \A e \in HeldFb : Fresh(e) =>
              /\ MemNow(ret.key) = {e}
              /\ ret.dw = "ok" => DiskNow(ret.key) = {e}
    /\ (LookupDone /\ ret.key \in ret.promoted) =>
          /\ ret.fbCalls = 0 /\ ret.calls = 0
          /\ \E e \in HeldMem : ret.result = Some(e.events) /\ HeldFb = {e}

\* the get that follows a remote-only hit
C10_Witness ==
    /\ LookupDone /\ ret.key \in ret.promoted
    /\ ret.fbCalls = 0 /\ ret.result # None

----------------------------------------------------------------------------
(* Cache keys as a function of the city and the event type                  *)

MaxKeyLen == 2      \* longest city or event type name drawn from KeyChars

KeyChars == {"A", "a", " "}

RECURSIVE StringsOfLen(_, _)
StringsOfLen(S, n) ==
    IF n = 0 THEN { <<>> }
    ELSE { Append(s, c) : s \in StringsOfLen(S, n - 1), c \in S }

\* the names a caller may pass: every name of one to MaxKeyLen characters,
\* and two names that together spell the popular-events key
KeyNames ==
    UNION { StringsOfLen(KeyChars, n) : n \in 1..MaxKeyLen }
        \cup { <<"p","o","p","u","l","a","r"," ","e","v","e","n","t","s">>,
               <<"u","s","a">> }

\* CacheManager._get_popular_events_cache_key
PopularEventsCacheKey ==
    <<"p","o","p","u","l","a","r","_","e","v","e","n","t","s","_","u","s","a">>

\* the key of every pair of names, derived once
KeyTable == [city \in KeyNames, event_type \in KeyNames |->
                GetCacheKey(city, event_type)]

\* one call of _get_cache_key
GetCacheKeyCall(city, event_type) ==
    /\ ret' = [op |-> "get_cache_key", city |-> city, event_type |-> event_type,
               key |-> KeyTable[city, event_type]]
    /\ UNCHANGED <<now, memory_cache, disk, firebase, tasks, procs>>

KeyNext == \E city \in KeyNames, event_type \in KeyNames :
               GetCacheKeyCall(city, event_type)

KeySpec == Init /\ [][KeyNext]_vars

\* the specification's normalisation: lower-cased, whitespace and slashes
\* replaced (region); lower-cased, whitespace replaced (category)
NormChar(c) == IF c = "A" THEN "a" ELSE c
NormRegion(s) ==
    [i \in 1..Len(s) |-> IF s[i] \in {" ", "/"} THEN "_" ELSE NormChar(s[i])]
NormCategory(s) ==
    [i \in 1..Len(s) |-> IF s[i] = " " THEN "_" ELSE NormChar(s[i])]

\* C11: two (region, category) pairs have the same cache key exactly when
\* their normalised regions are equal and their normalised categories are
\* equal, and no pair has the key of the popular-events entry.
C11_KeyIdentity ==
    ret.op = "get_cache_key" =>
        /\ \A city \in KeyNames, event_type \in KeyNames :
              (KeyTable[city, event_type] = ret.key) <=>
                  /\ NormRegion(city) = NormRegion(ret.city)
                  /\ NormCategory(event_type) = NormCategory(ret.event_type)
        /\ ret.key # PopularEventsCacheKey

----------------------------------------------------------------------------
(* The chat handler after its lookup: ranking without the LLM               *)

\* main.py stream_chat_response, the loop that sets event['relevance_score']
\* on the ten best events.  The events are identical apart from their place
\* in the list, so rank_event scores them alike and the stable sort keeps
\* their order: the i-th event gets 10 - (i - 1).
WithRelevanceScores(events) ==
    [i \in 1..Len(events) |->
        [f \in DOMAIN events[i] \cup {"relevance_score"} |->
            IF f = "relevance_score" THEN 11 - i ELSE events[i][f]]]

\* get_cached_events returned cache_data['events'] (or the fetched list that
\* cache_events stored): the list the memory entry holds, and the list of
\* the entry a waiting Firestore write was given.  The handler's ranking
\* writes into the dicts of that list.
RankEvents ==
    /\ ret.op = "lookup" /\ ret.result # None /\ ret.result.events # <<>>
    /\ ret.key \in DOMAIN memory_cache
    /\ LET old   == memory_cache[ret.key]
           new   == [old EXCEPT !.events = WithRelevanceScores(@)]
       IN  /\ memory_cache' = [memory_cache EXCEPT ![ret.key] = new]
           /\ tasks' = [i \in DOMAIN tasks |->
                           IF tasks[i].data = old
                           THEN [tasks[i] EXCEPT !.data = new] ELSE tasks[i]]
    /\ ret' = [NoCall EXCEPT !.op = "rank", !.key = ret.key]
    /\ UNCHANGED <<now, disk, firebase, procs>>

HandlerNext ==
    \/ \E city \in Cities, event_type \in EventTypes, crawler \in BOOLEAN,
          fbUp \in BOOLEAN, src \in SourceOutcomes, dw \in DiskOutcomes :
            Lookup(city, event_type, crawler, fbUp, src, dw)
    \/ RankEvents
    \/ \E fbUp \in BOOLEAN : RunTask(fbUp)
    \/ Tick

HandlerSpec == Init /\ [][HandlerNext]_vars

\* a step that stores an entry: cache_events, or a lookup that fetched or
\* promoted
StoringStep ==
    \/ ret'.op = "cache_events"
    \/ ret'.op = "lookup" /\ ret'.served \in {"disk", "firebase", "fetch"}

\* C12: between two puts for a key, the records and cached_at of the entry
\* the memory tier holds never change; in particular not by what a caller
\* does with the list a lookup returned.
C12_EntriesImmutable ==
    [][ StoringStep \/
        \A key \in DOMAIN memory_cache \cap DOMAIN memory_cache' :
            /\ memory_cache'[key].events = memory_cache[key].events
            /\ memory_cache'[key].cached_at = memory_cache[key].cached_at ]_vars

----------------------------------------------------------------------------
(* _is_cache_valid as a function of cached_at and the clock                 *)

MaxClock == 10      \* the clock of ValidSpec stops here

\* an hour passes
Hour ==
    /\ now < MaxClock
    /\ now' = now + 1
    /\ UNCHANGED <<memory_cache, disk, firebase, tasks, ret, procs>>

\* one call of _is_cache_valid on the cached_at of an entry; another
\* instance's clock may have stamped it ahead of this one's
IsCacheValidCall(cached_at) ==
    /\ ret' = [op |-> "is_cache_valid", cached_at |-> cached_at, t |-> now,
               result |-> IsCacheValid(cached_at, now)]
    /\ UNCHANGED <<now, memory_cache, disk, firebase, tasks, procs>>

ValidNext ==
    \/ Hour
    \/ \E cached_at \in 0..MaxClock : IsCacheValidCall(cached_at)

ValidSpec == Init /\ [][ValidNext]_vars

\* C13: is_valid(entry) is true exactly when now - cached_at < TTL: true at
\* age TTL - 1, false at age TTL and at every greater age.
C13_ValidityBoundary ==
    ret.op = "is_cache_valid" =>
        LET age == ret.t - ret.cached_at IN
        /\ ret.result <=> age < CACHE_TTL_HOURS
        /\ age = CACHE_TTL_HOURS - 1 => ret.result
        /\ age >= CACHE_TTL_HOURS => ~ret.result

\* an entry of age exactly TTL was judged
C13_Witness ==
    /\ ret.op = "is_cache_valid"
    /\ ret.t - ret.cached_at = CACHE_TTL_HOURS
    /\ ~ret.result

----------------------------------------------------------------------------
(* cleanup_old_cache                                                        *)

\* what the Firestore step of a cleanup can meet: the collection is read
\* and the expired documents deleted; the read raises (db is None, or the
\* store cannot be reached); the first delete raises
FirebaseOutcomes == {"ok", "down", "delete_raises"}

\* the memory step: every expired key is deleted
CleanupMemory(mem, t) ==
    [k \in { k \in DOMAIN mem : IsCacheValid(mem[k].cached_at, t) } |-> mem[k]]

\* the file step: a readable expired file is removed unless os.remove
\* raises (rm false); an unreadable file is logged and left
CleanupDisk(dsk, t, rm) ==
    LET expired(k) == JsonComplete(dsk[k])
                        /\ ~IsCacheValid(JsonLoad(dsk[k]).cached_at, t)
    IN  [k \in { k \in DOMAIN dsk : ~(expired(k) /\ rm) } |-> dsk[k]]

\* the Firestore step
CleanupFirebase(fb, t) ==
    [k \in { k \in DOMAIN fb : IsCacheValid(fb[k].cached_at, t) } |-> fb[k]]

\* CacheManager.cleanup_old_cache.  listing: os.listdir answers; when it
\* raises, or when the Firestore step raises, the method's outer except
\* logs the error and the method returns.
CleanupOldCache(st, t, listing, rm, fbo) ==
    LET st1 == [st EXCEPT !.mem = CleanupMemory(@, t)]
        st2 == [st1 EXCEPT !.disk = CleanupDisk(@, t, rm)]
        st3 == [st2 EXCEPT !.fb = CleanupFirebase(@, t)]
        anyExpired == \E k \in DOMAIN st.fb : ~IsCacheValid(st.fb[k].cached_at, t)
    IN  IF ~listing THEN st1
        ELSE IF fbo = "down" THEN st2
        ELSE IF fbo = "delete_raises" /\ anyExpired THEN st2
        ELSE st3

\* POST /api/cache/cleanup, or the cleanup at program start
Cleanup(listing, rm, fbo) ==
    /\ Commit(CleanupOldCache(Store, now, listing, rm, fbo))
    /\ ret' = [op |-> "cleanup", listing |-> listing, rm |-> rm, fbo |-> fbo]
    /\ UNCHANGED <<now, procs>>

CleanupNext ==
    \/ \E city \in Cities, event_type \in EventTypes, events \in EventLists,
          dw \in DiskOutcomes, loop \in BOOLEAN :
            Put(city, event_type, events, dw, loop)
    \/ \E fbUp \in BOOLEAN : RunTask(fbUp)
    \/ Tick
    \/ \E listing \in BOOLEAN, rm \in BOOLEAN, fbo \in FirebaseOutcomes :
            Cleanup(listing, rm, fbo)

CleanupSpec == Init /\ [][CleanupNext]_vars

\* the keys some tier knows
KnownKeys == DOMAIN memory_cache \cup DOMAIN disk \cup DOMAIN firebase

\* C14: when cleanup_old_cache has returned, no tier holds an entry that
\* fails the freshness rule, whatever step of the cleanup raised.
C14_SweepCompleteness ==
    ret.op = "cleanup" =>
        \A key \in KnownKeys :
            \A e \in MemNow(key) \cup DiskNow(key) \cup FbNow(key) : Fresh(e)

----------------------------------------------------------------------------
(* The past-item filter, CacheManager.filter_past_events.  fetch_all_events *)
(* calls it (background_fetcher.py:60); its body is not among the sources,  *)
(* so it is modelled from section 4.4 of the specification.                 *)

MaxFilterLen == 4   \* longest list given to the filter

HoursPerDay == 24

\* the clock when the filter is called: six in the morning of day 1
FilterClock == HoursPerDay + 6

\* start-time strings: an ISO date-time (at: the hour it names), an ISO
\* date without a time (at: the day it names), or text that is neither
DateTime(h) == [tag |-> "datetime", at |-> h]
DateOnly(d) == [tag |-> "date", at |-> d]
NotADate    == [tag |-> "text", at |-> 0]

\* records: yesterday, now, tomorrow, "not-a-date", no start time at all,
\* today's date and yesterday's date
Yesterday == [event_id |-> "y", start_datetime |-> DateTime(FilterClock - HoursPerDay)]
RightNow  == [event_id |-> "n", start_datetime |-> DateTime(FilterClock)]
Tomorrow  == [event_id |-> "t", start_datetime |-> DateTime(FilterClock + HoursPerDay)]
Garbled   == [event_id |-> "g", start_datetime |-> NotADate]
NoStart   == [event_id |-> "m"]
TodayDate == [event_id |-> "d", start_datetime |-> DateOnly(1)]
OldDate   == [event_id |-> "o", start_datetime |-> DateOnly(0)]

FilterRecords == {Yesterday, RightNow, Tomorrow, Garbled, NoStart, TodayDate, OldDate}

FilterLists == UNION { StringsOfLen(FilterRecords, n) : n \in 0..MaxFilterLen }

\* a filter that also drops what starts right now
FilterPastEventsInclusive(events, t) ==
    LET past(r) ==
            /\ "start_datetime" \in DOMAIN r
            /\ \/ r.start_datetime.tag = "datetime" /\ r.start_datetime.at <= t
               \/ r.start_datetime.tag = "date"
                    /\ r.start_datetime.at < t \div HoursPerDay
    IN  SelectSeq(events, LAMBDA r : ~past(r))

\* filter_past_events: a record is dropped when its start time parses and
\* lies strictly before now; a date without a time that is today's date is
\* kept, as is every record whose start time is missing or does not parse
FilterPastEvents(events, t) ==
    LET past(r) ==
            /\ "start_datetime" \in DOMAIN r
            /\ \/ r.start_datetime.tag = "datetime" /\ r.start_datetime.at < t
               \/ r.start_datetime.tag = "date"
                    /\ r.start_datetime.at < t \div HoursPerDay
    IN  SelectSeq(events, LAMBDA r : ~past(r))

FilterInit ==
    /\ now = FilterClock
    /\ memory_cache = EmptyDict /\ disk = EmptyDict /\ firebase = EmptyDict
    /\ tasks = <<>>
    /\ ret = [op |-> "none"]
    /\ fg = Idle /\ fetcher = Idle /\ sched = Idle

\* one call of the filter; it keeps no state, so a call made from the start
\* shows what every call does
FilterCall(events) ==
    /\ ret.op = "none"
    /\ ret' = [op |-> "filter_past_events", events |-> events, t |-> now,
               result |-> FilterPastEvents(events, now)]
    /\ UNCHANGED <<now, memory_cache, disk, firebase, tasks, procs>>

FilterNext == \E events \in FilterLists : FilterCall(events)

FilterSpec == FilterInit /\ [][FilterNext]_vars

\* the specification's rule for one record at time t: its start time was
\* parsed to a moment and the moment is strictly before t.  A date-time is
\* the moment it names; a bare date other than today's is the start of its
\* day; today's bare date is ambiguous and counts as not parsed.
StartedBefore(r, t) ==
    /\ "start_datetime" \in DOMAIN r
    /\ r.start_datetime # NotADate
    /\ \/ r.start_datetime \in { DateTime(h) : h \in 0..(t - 1) }
       \/ r.start_datetime \in { DateOnly(d) : d \in 0..((t \div HoursPerDay) - 1) }

\* the places of the records the rule keeps
KeptPlaces(events, t) == { i \in 1..Len(events) : ~StartedBefore(events[i], t) }

\* C18: the filter drops a record exactly when its start time was parsed
\* and is strictly before now, and keeps the others in their order:
\* <<yesterday, now, tomorrow, "not-a-date">> gives
\* <<now, tomorrow, "not-a-date">>.
C18_FilterResult ==
    ret.op = "filter_past_events" =>
        LET kept == KeptPlaces(ret.events, ret.t) IN
        /\ Len(ret.result) = Cardinality(kept)
        /\ \A i \in kept :
              ret.result[1 + Cardinality({ k \in kept : k < i })] = ret.events[i]
        /\ ret.events = <<Yesterday, RightNow, Tomorrow, Garbled>> =>
              ret.result = <<RightNow, Tomorrow, Garbled>>

\* the filter was given <<yesterday, now, tomorrow, "not-a-date">>
C18_Witness ==
    /\ ret.op = "filter_past_events"
    /\ ret.events = <<Yesterday, RightNow, Tomorrow, Garbled>>
    /\ Len(ret.result) = 3

----------------------------------------------------------------------------
(* BackgroundEventFetcher.fetch_all_events, one (city, event type) pair at  *)
(* a time.  It runs in a worker thread (asyncio.to_thread at startup, the   *)
(* scheduler's thread pool afterwards), where no event loop is running.     *)

\* the pairs in the order of the two nested loops
SupportedPairs ==
    [k \in 1..(Len(SupportedCities) * Len(SupportedEvents)) |->
        [city       |-> SupportedCities[((k - 1) \div Len(SupportedEvents)) + 1],
         event_type |-> SupportedEvents[((k - 1) % Len(SupportedEvents)) + 1]]]

\* what the Listing Source answers during a background fetch
FetcherAnswers ==
    { SourceRaise, SourceReturn(<<>>), SourceReturn(<<Tomorrow>>),
      SourceReturn(<<Yesterday>>), SourceReturn(<<Yesterday, Tomorrow>>) }

FetcherInit ==
    /\ now = FilterClock
    /\ memory_cache = EmptyDict /\ disk = EmptyDict /\ firebase = EmptyDict
    /\ tasks = <<>>
    /\ ret = [op |-> "none"]
    /\ fg = Idle /\ fetcher = Idle /\ sched = Idle

\* lines 33-44: the lists are read and the counters set; when reading them
\* raises, the outer except returns {'success': False}
RunBegun(listsOk) ==
    IF listsOk
    THEN [pc |-> "pairs", i |-> 1, total_fetched |-> 0,
          total_cached |-> 0, errors |-> <<>>, answers |-> <<>>,
          success |-> FALSE]
    ELSE [pc |-> "done", i |-> 1, total_fetched |-> 0,
          total_cached |-> 0, errors |-> <<>>, answers |-> <<>>,
          success |-> FALSE]

FetchAllEventsBegin(listsOk) ==
    /\ fetcher.pc = "idle"
    /\ fetcher' = RunBegun(listsOk)
    /\ UNCHANGED <<now, memory_cache, disk, firebase, tasks, ret, fg, sched>>

\* lines 58-80, what one pass of the inner loop does with the answer it
\* got: the run's record and the store it leaves.  answers is not program
\* state: it remembers what the Listing Source answered for each pair.
PairOutcome(f, st, src, t, dw) ==
    LET pair   == SupportedPairs[f.i]
        future == FilterPastEvents(src.events, t)
        put    == CacheEvents(st, pair.city, future, pair.event_type, t, dw, FALSE)
        f1     == [f EXCEPT !.pc = "pairs", !.i = @ + 1, !.answers = Append(@, src)]
    IN  IF src.raised
        THEN [f  |-> [f1 EXCEPT !.errors = Append(@, [pair |-> f.i, kind |-> "fetch"])],
              st |-> st, stores |-> FALSE]
        ELSE IF src.events = <<>> \/ future = <<>>
        THEN [f  |-> [f1 EXCEPT !.total_fetched = @ + Len(src.events)],
              st |-> st, stores |-> FALSE]
        ELSE IF put.ok
        THEN [f  |-> [f1 EXCEPT !.total_fetched = @ + Len(src.events),
                                !.total_cached = @ + Len(future)],
              st |-> put.st, stores |-> TRUE]
        ELSE [f  |-> [f1 EXCEPT !.total_fetched = @ + Len(src.events),
                                !.errors = Append(@, [pair |-> f.i, kind |-> "cache"])],
              st |-> put.st, stores |-> TRUE]

\* lines 48-80, one pass of the inner loop
FetchPair(src, dw) ==
    /\ fetcher.pc = "pairs" /\ fetcher.i <= Len(SupportedPairs)
    /\ LET r == PairOutcome(fetcher, Store, src, now, dw)
       IN  /\ ~r.stores => dw = "ok"
           /\ fetcher' = r.f
           /\ Commit(r.st)
    /\ UNCHANGED <<now, ret, fg, sched>>

\* lines 82-102: the summary is returned
FetchAllEventsEnd ==
    /\ fetcher.pc = "pairs" /\ fetcher.i > Len(SupportedPairs)
    /\ fetcher' = [fetcher EXCEPT !.pc = "done", !.success = TRUE]
    /\ UNCHANGED <<now, memory_cache, disk, firebase, tasks, ret, fg, sched>>

FetcherNext ==
    \/ \E listsOk \in BOOLEAN : FetchAllEventsBegin(listsOk)
    \/ \E src \in FetcherAnswers, dw \in DiskOutcomes : FetchPair(src, dw)
    \/ FetchAllEventsEnd

FetcherSpec == FetcherInit /\ [][FetcherNext]_vars

\* the pairs the summary of a finished run reports an error for
ReportedPairs == { fetcher.errors[j].pair : j \in DOMAIN fetcher.errors }

\* the pairs whose fetch raised
FailedPairs == { k \in DOMAIN fetcher.answers : fetcher.answers[k].raised }

\* the entry of pair k is in memory with the records that were to be stored
PairStored(k) ==
    LET pair == SupportedPairs[k]
        key  == CacheKeys[pair.city, pair.event_type]
    IN  /\ key \in DOMAIN memory_cache
        /\ memory_cache[key].events = FilterPastEvents(fetcher.answers[k].events, now)

\* C15: in a full background fetch in which some pairs' fetches fail, every
\* pair is attempted, the entry of every pair that has records to store is
\* stored, and the summary reports a failure for exactly the pairs whose
\* fetch failed (of three pairs with the middle one failing: one failure).
C15_SweepResilience ==
    (fetcher.pc = "done" /\ fetcher.success) =>
        /\ DOMAIN fetcher.answers = DOMAIN SupportedPairs
        /\ \A k \in DOMAIN SupportedPairs :
              (~fetcher.answers[k].raised
                  /\ FilterPastEvents(fetcher.answers[k].events, now) # <<>>)
                      => PairStored(k)
        /\ ReportedPairs = FailedPairs
        /\ Len(fetcher.errors) = Cardinality(FailedPairs)

----------------------------------------------------------------------------
(* Foreground lookups on the event loop and the background fetch in its     *)
(* worker thread, with every Listing Source call taking time: a call begins *)
(* in one step and answers in a later one.                                  *)

\* get_cached_events(city, event_type, event_crawler) up to the call of
\* fetch_events_by_city (cache_manager.py:61-134): a hit, or a failed
\* Firestore read, ends the lookup; a miss in every tier starts the fetch
LookupBegin(k, fbUp, dw) ==
    /\ fg.pc = "idle"
    /\ LET pair == SupportedPairs[k]
           r    == GetCachedEvents(Store, pair.city, pair.event_type, FALSE,
                                   fbUp, SourceRaise, now, dw, TRUE)
       IN  /\ r.fbCalls = 0 => fbUp
           /\ r.served # "firebase" => dw = "ok"
           /\ Commit(r.st)
           /\ IF r.served = "miss"
              THEN /\ fg' = [pc |-> "fetching", what |-> "lookup", pair |-> k]
                   /\ ret' = [op |-> "lookup_begin", pair |-> k]
              ELSE /\ fg' = Idle
                   /\ ret' = [op |-> "lookup", pair |-> k, result |-> r.result,
                              calls |-> 0]
    /\ UNCHANGED <<now, fetcher, sched>>

\* the Listing Source answers and _fetch_and_cache_fresh_events goes on
\* (cache_manager.py:136-147)
LookupEnd(src, dw) ==
    /\ fg.pc = "fetching" /\ fg.what = "lookup"
    /\ LET pair == SupportedPairs[fg.pair]
           r    == FetchAndCacheFreshEvents(Store, pair.city, pair.event_type,
                                            src, now, dw, TRUE)
       IN  /\ Len(r.st.tasks) <= MaxPending
           /\ r.result = None => dw = "ok"
           /\ Commit(r.st)
           /\ ret' = [op |-> "lookup", pair |-> fg.pair, result |-> r.result,
                      calls |-> r.calls]
    /\ fg' = Idle
    /\ UNCHANGED <<now, fetcher, sched>>

\* fetch_all_events calls fetch_events_by_city (background_fetcher.py:52)
FetchPairBegin ==
    /\ fetcher.pc = "pairs" /\ fetcher.i <= Len(SupportedPairs)
    /\ fetcher' = [fetcher EXCEPT !.pc = "fetching"]
    /\ UNCHANGED <<now, memory_cache, disk, firebase, tasks, ret, fg, sched>>

\* the Listing Source answers and the pass of the loop goes on
FetchPairEnd(src, dw) ==
    /\ fetcher.pc = "fetching"
    /\ LET r == PairOutcome(fetcher, Store, src, now, dw)
       IN  /\ ~r.stores => dw = "ok"
           /\ fetcher' = r.f
           /\ Commit(r.st)
    /\ UNCHANGED <<now, ret, fg, sched>>

\* the event loop runs a waiting Firestore write
LoopRunsTask(fbUp) ==
    /\ fg.pc = "idle"
    /\ tasks # <<>>
    /\ firebase' = IF fbUp THEN DictSet(firebase, Head(tasks).key, Head(tasks).data)
                           ELSE firebase
    /\ tasks' = Tail(tasks)
    /\ UNCHANGED <<now, memory_cache, disk, ret, procs>>

\* the answers of the Listing Source while both processes run: a failure, or
\* a listing with one record already over and one still to come
ConcAnswers == { SourceRaise, SourceReturn(<<Yesterday, Tomorrow>>) }

ConcNext ==
    \/ \E k \in DOMAIN SupportedPairs, fbUp \in BOOLEAN : LookupBegin(k, fbUp, "ok")
    \/ \E src \in ConcAnswers : LookupEnd(src, "ok")
    \/ \E listsOk \in BOOLEAN : FetchAllEventsBegin(listsOk)
    \/ FetchPairBegin
    \/ \E src \in ConcAnswers : FetchPairEnd(src, "ok")
    \/ FetchAllEventsEnd
    \/ \E fbUp \in BOOLEAN : LoopRunsTask(fbUp)

ConcSpec == FetcherInit /\ [][ConcNext]_vars

\* the Listing Source calls that are running, each with the key it is for
InFlight ==
    (IF fg.pc = "fetching"
     THEN { [by |-> "handler", pair |-> SupportedPairs[fg.pair]] } ELSE {})
    \cup
    (IF fetcher.pc = "fetching"
     THEN { [by |-> "fetcher", pair |-> SupportedPairs[fetcher.i]] } ELSE {})

\* C16: at no time are two Listing Source fetches for the same (region,
\* category) key running at once.
C16_OneRefreshPerKey ==
    \A a \in InFlight, b \in InFlight : a.pair = b.pair => a = b

\* C17: on every path that stores fetched records, no stored entry holds a
\* record whose start time was parsed and is strictly before the time of
\* the fetch (the entry's cached_at): the past-item filter ran between the
\* fetch and the store.
C17_FilterBeforeStore ==
    \A key \in DOMAIN memory_cache :
        \A i \in DOMAIN memory_cache[key].events :
            ~StartedBefore(memory_cache[key].events[i], memory_cache[key].cached_at)

----------------------------------------------------------------------------
(* The warm-up: CacheManager.cache_all_event_types_for_city, called by the  *)
(* chat handler for the city of the request (main.py:552).  The call is     *)
(* synchronous, so the event loop runs no task while it lasts; the clock    *)
(* goes on, and so does the worker thread, whose cache_events stores        *)
(* without a running loop.                                                  *)

\* a warm-up pass that fetches without looking at the cache
WarmOneAlwaysFetch(st, city, event_type, fbUp, src, t, dw) ==
    LET put == CacheEvents(st, city, src.events, event_type, t, dw, TRUE)
    IN  IF src.raised
        THEN [st |-> st, calls |-> 1, fbCalls |-> 0, writes |-> FALSE, result |-> <<>>]
        ELSE IF src.events # <<>>
        THEN [st |-> put.st, calls |-> 1, fbCalls |-> 0, writes |-> TRUE,
              result |-> src.events]
        ELSE [st |-> st, calls |-> 1, fbCalls |-> 0, writes |-> FALSE, result |-> <<>>]

\* lines 166-177, after the check answered c: a non-empty cached list is
\* kept, otherwise the fetch is made and a non-empty answer is stored
WarmAfterCheck(c, city, event_type, src, t, dw) ==
    IF c.result # None /\ c.result.events # <<>>
    THEN [st |-> c.st, calls |-> 0, fbCalls |-> c.fbCalls,
          writes |-> c.served = "firebase", result |-> c.result.events]
    ELSE IF ~src.raised /\ src.events # <<>>
    THEN [st |-> CacheEvents(c.st, city, src.events, event_type, t, dw, TRUE).st,
          calls |-> 1, fbCalls |-> c.fbCalls, writes |-> TRUE,
          result |-> src.events]
    ELSE [st |-> c.st, calls |-> 1, fbCalls |-> c.fbCalls, writes |-> FALSE,
          result |-> <<>>]

\* lines 163-180, one pass of the loop: the check with event_crawler=None,
\* then the fetch and the store; an exception of the fetch leaves []
WarmOne(st, city, event_type, fbUp, src, t, dw) ==
    WarmAfterCheck(GetCachedEvents(st, city, event_type, FALSE, fbUp,
                                   SourceRaise, t, dw, TRUE),
                   city, event_type, src, t, dw)

\* the key is validly cached: a lookup without a crawler finds a fresh entry
\* in memory, in a readable file, or in Firestore when it answers
ValidlyCached(key, fbUp) ==
    \/ key \in DOMAIN memory_cache
         /\ now - memory_cache[key].cached_at < CACHE_TTL_HOURS
    \/ key \in DOMAIN disk /\ JsonComplete(disk[key])
         /\ now - JsonField(disk[key], "cached_at") < CACHE_TTL_HOURS
    \/ fbUp /\ key \in DOMAIN firebase
         /\ now - firebase[key].cached_at < CACHE_TTL_HOURS

\* nothing fetched yet in this warm-up
NoPass == [valid |-> FALSE, calls |-> 1, src |-> SourceReturn(<<>>),
           stored |-> FALSE, failed |-> 0, skipped |-> 0]

\* lines 157-161: get_supported_events is read; when it raises, the outer
\* except returns {}
WarmBegin(city, typesOk) ==
    /\ fg.pc \in {"idle", "warmed"}
    /\ Len(tasks) < MaxPending
    /\ fg' = [pc |-> IF typesOk THEN "warming" ELSE "warmed", city |-> city,
              j |-> 1, listed |-> typesOk, last |-> NoPass]
    /\ UNCHANGED <<now, memory_cache, disk, firebase, tasks, ret, fetcher, sched>>

\* the pass answered r: the stores are written and last keeps, for the pass
\* just made, whether the key was validly cached when the loop reached it,
\* the calls made, the answer, whether it was stored, and how many earlier
\* passes saw the source fail or made no call
WarmPassDone(r, key, fbUp, src, dw) ==
    /\ r.calls = 0 => src = SourceRaise
    /\ r.fbCalls = 0 => fbUp
    /\ ~r.writes => dw = "ok"
    /\ Commit(r.st)
    /\ fg' = [fg EXCEPT !.j = @ + 1,
                !.last =
                   [valid  |-> ValidlyCached(key, fbUp),
                    calls  |-> r.calls,
                    src    |-> src,
                    stored |-> /\ key \in DOMAIN r.st.mem
                               /\ r.st.mem[key].events = src.events
                               /\ r.st.mem[key].cached_at = now,
                    failed |-> fg.last.failed +
                               (IF fg.last.calls = 1 /\ fg.last.src.raised
                                THEN 1 ELSE 0),
                    skipped |-> fg.last.skipped +
                               (IF fg.last.calls = 0 THEN 1 ELSE 0)]]

\* one category of the loop
WarmCategory(fbUp, src, dw) ==
    /\ fg.pc = "warming" /\ fg.j <= Len(SupportedEvents)
    /\ WarmPassDone(WarmOne(Store, fg.city, SupportedEvents[fg.j], fbUp, src, now, dw),
                    CacheKeys[fg.city, SupportedEvents[fg.j]], fbUp, src, dw)
    /\ UNCHANGED <<now, ret, fetcher, sched>>

\* lines 182-183: the results are returned
WarmEnd ==
    /\ fg.pc = "warming" /\ fg.j > Len(SupportedEvents)
    /\ fg' = [fg EXCEPT !.pc = "warmed"]
    /\ UNCHANGED <<now, memory_cache, disk, firebase, tasks, ret, fetcher, sched>>

\* what the Listing Source answers to the warm-up
WarmAnswers ==
    { SourceRaise, SourceReturn(<<>>) } \cup
    { SourceReturn(ListOf(r, 1)) : r \in Records }

WarmNext ==
    \/ \E city \in Cities, typesOk \in BOOLEAN : WarmBegin(city, typesOk)
    \/ \E fbUp \in BOOLEAN, src \in WarmAnswers : WarmCategory(fbUp, src, "ok")
    \/ WarmEnd
    \/ \E city \in Cities, event_type \in EventTypes, r \in Records :
            Put(city, event_type, ListOf(r, 1), "ok", FALSE)
    \/ fg.pc # "warming" /\ RunTask(TRUE)
    \/ Tick
    \/ \E freshHost \in BOOLEAN : fg.pc # "warming" /\ Restart(freshHost)

WarmSpec == Init /\ [][WarmNext]_vars

\* C19: the warm-up calls the Listing Source for exactly the categories
\* that are not validly cached when it reaches them and for no category
\* that is; a failing category does not stop the later ones, which are
\* still fetched and, when the answer has records, stored.
C19_WarmFetchesUncached ==
    fg.pc \in {"warming", "warmed"} =>
        /\ fg.j > 1 =>
              /\ fg.last.valid  => fg.last.calls = 0
              /\ ~fg.last.valid => fg.last.calls = 1
              /\ (fg.last.calls = 1 /\ ~fg.last.src.raised
                     /\ fg.last.src.events # <<>>) => fg.last.stored
        /\ (fg.pc = "warmed" /\ fg.listed) => fg.j = Len(SupportedEvents) + 1

\* a finished warm-up that made no call for a cached category, saw the
\* Listing Source fail on another, and still fetched and stored the last one
C19_Witness ==
    /\ fg.pc = "warmed" /\ fg.j = Len(SupportedEvents) + 1
    /\ fg.last.skipped > 0 /\ fg.last.failed > 0
    /\ ~fg.last.valid /\ fg.last.calls = 1 /\ fg.last.stored

\* a warm-up that reached a validly cached category and made no call for it
C19_WitnessCached ==
    /\ fg.pc = "warming" /\ fg.j > 1
    /\ fg.last.valid /\ fg.last.calls = 0

----------------------------------------------------------------------------
(* Process startup: startup_event registers the cron job of the background  *)
(* fetch and queues one run at once (main.py:183-210).  The clock counts    *)
(* hours.  A task that is ready runs before the hour is over, the cron      *)
(* trigger fires in the hour it is due, and a run of fetch_all_events ends  *)
(* within the hour it began.                                                *)

MaxSchedClock == 9   \* the clock of StartSpec stops here

\* the process may come up at any hour of a period
StartInit ==
    /\ now \in 0..(REFRESH_INTERVAL_HOURS - 1)
    /\ memory_cache = EmptyDict /\ disk = EmptyDict /\ firebase = EmptyDict
    /\ tasks = <<>>
    /\ ret = [op |-> "none"]
    /\ fg = Idle /\ fetcher = Idle /\ sched = Idle

\* a startup that registers the cron job and queues no run of its own
StartupEventCronOnly(ok) ==
    /\ sched.pc = "idle"
    /\ sched' = [pc |-> IF ok THEN "running" ELSE "failed",
                 started_at |-> now, stopped_at |-> now,
                 initial |-> "none", sweeps |-> <<>>]
    /\ UNCHANGED <<now, memory_cache, disk, firebase, tasks, ret, fg, fetcher>>

\* startup_event: add_job with CronTrigger(hour='*/4', minute=0),
\* scheduler.start(), then create_task(to_thread(run_fetch)); when add_job
\* or start raises, the except logs it and nothing is queued
StartupEvent(ok) ==
    /\ sched.pc = "idle"
    /\ sched' = [pc |-> IF ok THEN "running" ELSE "failed",
                 started_at |-> now, stopped_at |-> now,
                 initial |-> IF ok THEN "queued" ELSE "none", sweeps |-> <<>>]
    /\ UNCHANGED <<now, memory_cache, disk, firebase, tasks, ret, fg, fetcher>>

\* the event loop runs the queued task: run_fetch begins in a worker thread
InitialFetchRuns(listsOk) ==
    /\ sched.pc = "running" /\ sched.initial = "queued"
    /\ sched' = [sched EXCEPT !.initial = "started",
                    !.sweeps = Append(@, [at |-> now, by |-> "startup"])]
    /\ fetcher' = RunBegun(listsOk)
    /\ UNCHANGED <<now, memory_cache, disk, firebase, tasks, ret, fg>>

\* a cron trigger with a period longer than the TTL
CronDueEveryTwelve ==
    /\ sched.pc = "running"
    /\ now % (3 * REFRESH_INTERVAL_HOURS) = 0 /\ now > sched.started_at
    /\ \A j \in DOMAIN sched.sweeps : sched.sweeps[j] # [at |-> now, by |-> "cron"]

\* the cron trigger is due: an hour divisible by four, after the start
CronDue ==
    /\ sched.pc = "running"
    /\ now % REFRESH_INTERVAL_HOURS = 0 /\ now > sched.started_at
    /\ \A j \in DOMAIN sched.sweeps : sched.sweeps[j] # [at |-> now, by |-> "cron"]

\* the scheduler submits background_event_fetch to its thread pool
CronFires(listsOk) ==
    /\ CronDue
    /\ fetcher.pc \in {"idle", "done"}
    /\ sched' = [sched EXCEPT !.sweeps = Append(@, [at |-> now, by |-> "cron"])]
    /\ fetcher' = RunBegun(listsOk)
    /\ UNCHANGED <<now, memory_cache, disk, firebase, tasks, ret, fg>>

\* shutdown_event: scheduler.shutdown(wait=True) returns when no run the
\* scheduler submitted is going on; the run queued at startup is not one of
\* them, and it began before any later event reached the loop
ShutdownEvent ==
    /\ sched.pc = "running"
    /\ sched.initial # "queued"
    /\ \/ fetcher.pc \in {"idle", "done"}
       \/ Len(sched.sweeps) > 0 /\ sched.sweeps[Len(sched.sweeps)].by = "startup"
    /\ sched' = [sched EXCEPT !.pc = "stopped", !.stopped_at = now]
    /\ UNCHANGED <<now, memory_cache, disk, firebase, tasks, ret, fg, fetcher>>

\* an hour passes
ClockHour ==
    /\ now < MaxSchedClock
    /\ sched.pc # "idle"
    /\ sched.initial # "queued"
    /\ ~CronDue
    /\ fetcher.pc \in {"idle", "done"}
    /\ now' = now + 1
    /\ UNCHANGED <<memory_cache, disk, firebase, tasks, ret, procs>>

StartNext ==
    \/ \E ok \in BOOLEAN : StartupEvent(ok)
    \/ \E listsOk \in BOOLEAN : InitialFetchRuns(listsOk)
    \/ \E listsOk \in BOOLEAN : CronFires(listsOk)
    \/ \E src \in ConcAnswers : FetchPair(src, "ok")
    \/ FetchAllEventsEnd
    \/ ShutdownEvent
    \/ ClockHour

StartSpec == StartInit /\ [][StartNext]_vars

\* the hours at which a sweep began, by what began it
SweepsAt(by) ==
    { sched.sweeps[j].at : j \in { i \in DOMAIN sched.sweeps : sched.sweeps[i].by = by } }

\* the hours after the start at which a period begins
PeriodHours(from, to) == { h \in (from + 1)..to : h % REFRESH_INTERVAL_HOURS = 0 }

\* shutdown_event of main.py does what C21 asks of stop(): once the
\* scheduler is shut down no run of fetch_all_events begins
ShutdownStopsSweeps == [][sched.pc = "stopped" => sched'.sweeps = sched.sweeps]_vars

----------------------------------------------------------------------------
(* CityEventsScheduler._calculate_next_interval.  A datetime is the number  *)
(* of minutes since 00:00 UTC of day 0.                                     *)

MaxIntervalDays == 1   \* days of clock readings given to the function

MinutesPerHour == 60
MinutesPerDay  == HoursPerDay * MinutesPerHour

\* datetime.hour
HourOf(t) == (t \div MinutesPerHour) % HoursPerDay

\* t.replace(hour=h, minute=0, second=0, microsecond=0)
ReplaceHour(t, h) == (t \div MinutesPerDay) * MinutesPerDay + h * MinutesPerHour

\* lines 33-40: the hour of the next boundary, 24 for 00:00 of the next day
NextIntervalHour(current_hour) ==
    IF current_hour < 6 THEN 6
    ELSE IF current_hour < 12 THEN 12
    ELSE IF current_hour < 18 THEN 18
    ELSE 24

\* the function with midnight taken on the day of t, not on the next
CalculateNextIntervalSameDay(t) ==
    LET next_hour == NextIntervalHour(HourOf(t))
        next_datetime == IF next_hour = 24
                         THEN ReplaceHour(t, 0)
                         ELSE ReplaceHour(t, next_hour)
        moved == IF next_datetime <= t
                 THEN next_datetime + 6 * MinutesPerHour
                 ELSE next_datetime
    IN  moved - t

\* lines 29-54: the minutes from t to the next boundary
CalculateNextInterval(t) ==
    LET next_hour == NextIntervalHour(HourOf(t))
        next_datetime == IF next_hour = 24
                         THEN ReplaceHour(t + MinutesPerDay, 0)
                         ELSE ReplaceHour(t, next_hour)
        moved == IF next_datetime <= t
                 THEN next_datetime + 6 * MinutesPerHour
                 ELSE next_datetime
    IN  moved - t

\* the clock shows any minute of the days looked at
IntervalInit ==
    /\ now \in 0..(MaxIntervalDays * MinutesPerDay - 1)
    /\ memory_cache = EmptyDict /\ disk = EmptyDict /\ firebase = EmptyDict
    /\ tasks = <<>>
    /\ ret = [op |-> "none"]
    /\ fg = Idle /\ fetcher = Idle /\ sched = Idle

\* one call; the function reads the clock and keeps no state
CalculateNextIntervalCall ==
    /\ ret.op = "none"
    /\ ret' = [op |-> "calculate_next_interval", t |-> now,
               result |-> CalculateNextInterval(now)]
    /\ UNCHANGED <<now, memory_cache, disk, firebase, tasks, procs>>

IntervalNext == CalculateNextIntervalCall

IntervalSpec == IntervalInit /\ [][IntervalNext]_vars

\* the boundaries 00:00, 06:00, 12:00 and 18:00 of every day
IsBoundary(t) == t % (6 * MinutesPerHour) = 0

\* C30: for every time of day the sleep is more than nothing and at most
\* six hours, and it ends at the first of the boundaries 00:00, 06:00,
\* 12:00, 18:00 that is strictly after now.
C30_NextIntervalIsNextBoundary ==
    ret.op = "calculate_next_interval" =>
        /\ ret.result > 0
        /\ ret.result <= 6 * MinutesPerHour
        /\ IsBoundary(ret.t + ret.result)
        /\ \A u \in (ret.t + 1)..(ret.t + ret.result - 1) : ~IsBoundary(u)

\* a call made exactly on a boundary, answered with the full six hours
C30_Witness ==
    /\ ret.op = "calculate_next_interval"
    /\ IsBoundary(ret.t) /\ ret.t > 0
    /\ ret.result = 6 * MinutesPerHour

----------------------------------------------------------------------------
(* CityEventsScheduler: start(), stop() and the loop task that start()      *)
(* creates.  All of it runs on the event loop, one step at a time: a step   *)
(* of a task goes from one await to the next, and _crawl_all_cities has no  *)
(* await of its own, so a crawl is part of one step.  The clock counts      *)
(* hours; whatever is ready runs before the hour is over.                   *)

MaxLoops == 2        \* most loop tasks start() creates
MaxLoopClock == 13   \* the clock of LoopSpec stops here

\* cache_popular_events: memory, the file, and the Firestore task
CachePopularEvents(st, events, cities_crawled, t, dw) ==
    LET cache_data == [events |-> events, cached_at |-> t, count |-> Len(events),
                       cities_crawled |-> cities_crawled, next_crawl_at |-> t + 6]
        text == << <<"events", events>>, <<"cached_at", t>>,
                   <<"count", Len(events)>>, <<"cities_crawled", cities_crawled>>,
                   <<"next_crawl_at", t + 6>>, <<"}", 0>> >>
    IN  [st EXCEPT !.mem = DictSet(@, PopularEventsCacheKey, cache_data),
                   !.disk = CASE dw = "ok" -> DictSet(@, PopularEventsCacheKey, text)
                              [] dw = "partial" ->
                                   DictSet(@, PopularEventsCacheKey, SubSeq(text, 1, 3))
                              [] dw = "unchanged" -> @,
                   !.tasks = Append(@, FirebaseWriteTask(PopularEventsCacheKey, cache_data))]

\* _crawl_all_cities once the list of cities is read: every city is
\* fetched, a non-empty answer is stored under the default event type and
\* its first record kept; the records kept are stored as popular events.
\* answers[i] is what the Listing Source answers for the i-th city.
CrawlAllCities(st, answers, t, dw) ==
    LET RECURSIVE go(_, _, _)
        go(i, store, popular) ==
            IF i > Len(SupportedCities)
            THEN IF popular # <<>>
                 THEN CachePopularEvents(store, popular, SupportedCities, t, dw)
                 ELSE store
            ELSE IF ~answers[i].raised /\ answers[i].events # <<>>
            THEN go(i + 1,
                    CacheEvents(store, SupportedCities[i], answers[i].events,
                                DefaultEventType, t, dw, TRUE).st,
                    Append(popular, answers[i].events[1]))
            ELSE go(i + 1, store, popular)
    IN  go(1, st, <<>>)

\* what the Listing Source answers to the crawl
LoopAnswers == { SourceRaise, SourceReturn(<<>>), SourceReturn(<<Tomorrow>>) }

\* CityEventsScheduler.__init__ (lines 17-21) at any hour of the first day's
\* first period
LoopInit ==
    /\ now \in {0, 5}
    /\ memory_cache = EmptyDict /\ disk = EmptyDict /\ firebase = EmptyDict
    /\ tasks = <<>>
    /\ ret = [op |-> "none"]
    /\ fg = Idle /\ fetcher = Idle
    /\ sched = [running |-> FALSE, task |-> 0, loops |-> <<>>, crawls |-> <<>>]

\* a start() that does not look at running
SchedulerStartAlways ==
    /\ Len(sched.loops) < MaxLoops
    /\ sched' = [sched EXCEPT !.running = TRUE,
                    !.task = Len(sched.loops) + 1,
                    !.loops = Append(@, [pc |-> "ready", cancel |-> FALSE, wake |-> 0])]
    /\ ret' = [op |-> "start", was |-> sched.running]
    /\ UNCHANGED <<now, memory_cache, disk, firebase, tasks, fg, fetcher>>

\* start(): lines 128-136
SchedulerStart ==
    /\ sched.running \/ Len(sched.loops) < MaxLoops
    /\ sched' = IF sched.running
                THEN sched
                ELSE [sched EXCEPT !.running = TRUE,
                         !.task = Len(sched.loops) + 1,
                         !.loops = Append(@, [pc |-> "ready", cancel |-> FALSE,
                                              wake |-> 0])]
    /\ ret' = [op |-> "start", was |-> sched.running]
    /\ UNCHANGED <<now, memory_cache, disk, firebase, tasks, fg, fetcher>>

\* a stop() that clears running and leaves the task alone
SchedulerStopNoCancel ==
    /\ sched' = IF ~sched.running THEN sched ELSE [sched EXCEPT !.running = FALSE]
    /\ ret' = [op |-> "stop", was |-> sched.running]
    /\ UNCHANGED <<now, memory_cache, disk, firebase, tasks, fg, fetcher>>

\* stop(): lines 138-146.  Task.cancel() asks for the cancellation; the
\* task sees it at its next step.
SchedulerStop ==
    /\ sched' = IF ~sched.running
                THEN sched
                ELSE IF sched.task # 0
                THEN [sched EXCEPT !.running = FALSE,
                         !.loops[sched.task].cancel = TRUE]
                ELSE [sched EXCEPT !.running = FALSE]
    /\ ret' = [op |-> "stop", was |-> sched.running]
    /\ UNCHANGED <<now, memory_cache, disk, firebase, tasks, fg, fetcher>>

\* the task is at the top of the while: it ends when running is false, and
\* otherwise sleeps until the next boundary (lines 107-114)
LoopTop(l) ==
    IF sched.running
    THEN [l EXCEPT !.pc = "sleeping",
            !.wake = now + (CalculateNextInterval(now * MinutesPerHour)
                              \div MinutesPerHour)]
    ELSE [l EXCEPT !.pc = "done"]

\* the first step of a task; a task cancelled before it ran never runs
LoopBegins(k) ==
    /\ k \in DOMAIN sched.loops /\ sched.loops[k].pc = "ready"
    /\ sched' = [sched EXCEPT !.loops[k] =
                    IF @.cancel THEN [@ EXCEPT !.pc = "done"] ELSE LoopTop(@)]
    /\ ret' = [op |-> "loop", task |-> k]
    /\ UNCHANGED <<now, memory_cache, disk, firebase, tasks, fg, fetcher>>

\* a sleeping task is cancelled: CancelledError is raised at the await and
\* the loop breaks (lines 120-122); raised at the await of line 126 it ends
\* the task as well
LoopCancelled(k) ==
    /\ k \in DOMAIN sched.loops /\ sched.loops[k].pc \in {"sleeping", "retry"}
    /\ sched.loops[k].cancel
    /\ sched' = [sched EXCEPT !.loops[k].pc = "done"]
    /\ ret' = [op |-> "loop", task |-> k]
    /\ UNCHANGED <<now, memory_cache, disk, firebase, tasks, fg, fetcher>>

\* a loop that ends when a crawl raises
LoopWakesBreakOnError(k, citiesOk, answers, dw) ==
    /\ k \in DOMAIN sched.loops /\ sched.loops[k].pc = "sleeping"
    /\ ~sched.loops[k].cancel /\ now >= sched.loops[k].wake
    /\ IF ~sched.running
       THEN /\ citiesOk /\ dw = "ok" /\ \A i \in DOMAIN answers : answers[i] = SourceRaise
            /\ sched' = [sched EXCEPT !.loops[k] = LoopTop(@)]
            /\ UNCHANGED <<memory_cache, disk, firebase, tasks>>
       ELSE IF ~citiesOk
       THEN /\ dw = "ok" /\ \A i \in DOMAIN answers : answers[i] = SourceRaise
            /\ sched' = [sched EXCEPT !.loops[k].pc = "done",
                            !.crawls = Append(@, [task |-> k, at |-> now,
                                                  failed |-> TRUE])]
            /\ UNCHANGED <<memory_cache, disk, firebase, tasks>>
       ELSE /\ (\A i \in DOMAIN answers : answers[i].raised \/ answers[i].events = <<>>)
                  => dw = "ok"
            /\ sched' = [sched EXCEPT !.loops[k] = LoopTop(@),
                            !.crawls = Append(@, [task |-> k, at |-> now,
                                                  failed |-> FALSE])]
            /\ Commit(CrawlAllCities(Store, answers, now, dw))
    /\ ret' = [op |-> "loop", task |-> k]
    /\ UNCHANGED <<now, fg, fetcher>>

\* the sleep is over (lines 116-118): the crawl runs when running is still
\* true.  citiesOk: _get_supported_cities answers; when it raises, the
\* except of line 123 logs it and sleeps a minute.
LoopWakes(k, citiesOk, answers, dw) ==
    /\ k \in DOMAIN sched.loops /\ sched.loops[k].pc = "sleeping"
    /\ ~sched.loops[k].cancel /\ now >= sched.loops[k].wake
    /\ IF ~sched.running
       THEN /\ citiesOk /\ dw = "ok" /\ \A i \in DOMAIN answers : answers[i] = SourceRaise
            /\ sched' = [sched EXCEPT !.loops[k] = LoopTop(@)]
            /\ UNCHANGED <<memory_cache, disk, firebase, tasks>>
       ELSE IF ~citiesOk
       THEN /\ dw = "ok" /\ \A i \in DOMAIN answers : answers[i] = SourceRaise
            /\ sched' = [sched EXCEPT !.loops[k].pc = "retry",
                            !.crawls = Append(@, [task |-> k, at |-> now,
                                                  failed |-> TRUE])]
            /\ UNCHANGED <<memory_cache, disk, firebase, tasks>>
       ELSE /\ (\A i \in DOMAIN answers : answers[i].raised \/ answers[i].events = <<>>)
                  => dw = "ok"
            /\ sched' = [sched EXCEPT !.loops[k] = LoopTop(@),
                            !.crawls = Append(@, [task |-> k, at |-> now,
                                                  failed |-> FALSE])]
            /\ Commit(CrawlAllCities(Store, answers, now, dw))
    /\ ret' = [op |-> "loop", task |-> k]
    /\ UNCHANGED <<now, fg, fetcher>>

\* the minute of line 126 is over: back to the top of the while
LoopRetries(k) ==
    /\ k \in DOMAIN sched.loops /\ sched.loops[k].pc = "retry"
    /\ ~sched.loops[k].cancel
    /\ sched' = [sched EXCEPT !.loops[k] = LoopTop(@)]
    /\ ret' = [op |-> "loop", task |-> k]
    /\ UNCHANGED <<now, memory_cache, disk, firebase, tasks, fg, fetcher>>

\* a step of some task is ready to run
LoopReady ==
    \E k \in DOMAIN sched.loops :
        \/ sched.loops[k].pc \in {"ready", "retry"}
        \/ sched.loops[k].pc = "sleeping"
              /\ (sched.loops[k].cancel \/ now >= sched.loops[k].wake)

\* the event loop runs a waiting Firestore write of the crawl
LoopWritesFirebase(fbUp) ==
    /\ tasks # <<>>
    /\ firebase' = IF fbUp THEN DictSet(firebase, Head(tasks).key, Head(tasks).data)
                           ELSE firebase
    /\ tasks' = Tail(tasks)
    /\ ret' = [op |-> "firebase_write"]
    /\ UNCHANGED <<now, memory_cache, disk, procs>>

\* an hour passes
LoopHour ==
    /\ now < MaxLoopClock
    /\ ~LoopReady /\ tasks = <<>>
    /\ now' = now + 1
    /\ ret' = [op |-> "hour"]
    /\ UNCHANGED <<memory_cache, disk, firebase, tasks, procs>>

LoopNext ==
    \/ SchedulerStart
    \/ SchedulerStop
    \/ \E k \in 1..MaxLoops : LoopBegins(k)
    \/ \E k \in 1..MaxLoops : LoopCancelled(k)
    \/ \E k \in 1..MaxLoops, citiesOk \in BOOLEAN,
          answers \in [DOMAIN SupportedCities -> LoopAnswers], dw \in DiskOutcomes :
            LoopWakes(k, citiesOk, answers, dw)
    \/ \E k \in 1..MaxLoops : LoopRetries(k)
    \/ \E fbUp \in BOOLEAN : LoopWritesFirebase(fbUp)
    \/ LoopHour

LoopSpec == LoopInit /\ [][LoopNext]_vars

\* the event loop runs what is ready and the clock goes on
LoopFairSpec ==
    /\ LoopSpec
    /\ WF_vars(\E k \in 1..MaxLoops : LoopBegins(k))
    /\ WF_vars(\E k \in 1..MaxLoops : LoopCancelled(k))
    /\ WF_vars(\E k \in 1..MaxLoops, citiesOk \in BOOLEAN,
                  answers \in [DOMAIN SupportedCities -> LoopAnswers],
                  dw \in DiskOutcomes : LoopWakes(k, citiesOk, answers, dw))
    /\ WF_vars(\E k \in 1..MaxLoops : LoopRetries(k))
    /\ WF_vars(\E fbUp \in BOOLEAN : LoopWritesFirebase(fbUp))
    /\ WF_vars(LoopHour)

\* the loop tasks that have not ended and were not cancelled
LiveLoops ==
    { k \in DOMAIN sched.loops :
        sched.loops[k].pc # "done" /\ ~sched.loops[k].cancel }

\* the step began a crawl
CrawlBegins == Len(sched'.crawls) > Len(sched.crawls)

\* C21: once stop() has been called the pending timer is cancelled and no
\* new sweep begins: a crawl begins only while running is true, in the task
\* start() created last and only when that task is not cancelled.  Only a
\* step that begins a crawl writes memory or disk, and it ends the crawl as
\* well, so a stop never leaves an entry or the popular entry half-written.
C21_SafelyStoppable ==
    /\ [](~sched.running /\ sched.task # 0 => sched.loops[sched.task].cancel)
    /\ [][ /\ CrawlBegins =>
                /\ sched.running
                /\ sched'.crawls[Len(sched'.crawls)].task = sched.task
                /\ ~sched.loops[sched.task].cancel
           /\ (memory_cache' # memory_cache \/ disk' # disk) => CrawlBegins ]_vars

\* a scheduler stopped after one crawl: its task has ended, two boundaries
\* have passed since, and no other crawl began
C21_Witness ==
    /\ ~sched.running /\ sched.task # 0
    /\ sched.loops[sched.task].pc = "done"
    /\ Len(sched.crawls) = 1 /\ ~sched.crawls[1].failed
    /\ PopularEventsCacheKey \in DOMAIN memory_cache
    /\ now >= sched.crawls[1].at + 6

\* C28: there is never more than one loop task that is live and not
\* cancelled; start() while running creates no task, and stop() while not
\* running changes nothing.
C28_AtMostOneLoop ==
    /\ [](Cardinality(LiveLoops) <= 1)
    /\ [][ /\ (ret'.op = "start" /\ sched.running) => sched' = sched
           /\ (ret'.op = "stop" /\ ~sched.running) => sched' = sched ]_vars

\* start() was called while running, after a stop() and a second start():
\* the first task is cancelled and has not ended yet, the second one lives
C28_Witness ==
    /\ ret.op = "start" /\ ret.was
    /\ Len(sched.loops) = 2
    /\ sched.loops[1].cancel /\ sched.loops[1].pc # "done"
    /\ LiveLoops = {2}

\* C29: a crawl that raises does not end the loop: a task ends only when it
\* was cancelled, and after a failed crawl of the running scheduler's task
\* another crawl begins unless the scheduler is stopped (as long as the
\* clock can reach the next boundary).
C29_LoopSurvivesFailedCycle ==
    /\ [](\A k \in DOMAIN sched.loops :
             sched.loops[k].pc = "done" => sched.loops[k].cancel)
    /\ \A n \in 1..(MaxLoopClock \div 6) :
          (Len(sched.crawls) = n /\ sched.crawls[n].failed
              /\ sched.running /\ sched.crawls[n].task = sched.task
              /\ sched.crawls[n].at + 6 <= MaxLoopClock)
          ~> (Len(sched.crawls) > n \/ ~sched.running)

\* a crawl failed, the scheduler was not stopped, and the next one ran
C29_Witness ==
    /\ Len(sched.crawls) = 2
    /\ sched.crawls[1].failed /\ ~sched.crawls[2].failed
    /\ sched.crawls[2].task = sched.crawls[1].task
    /\ sched.running

----------------------------------------------------------------------------
(* Every operation of CacheManager on one store: lookups, stores, the       *)
(* Firestore writes, the cleanup, and the two read-only reports.            *)

\* get_cache_stats (lines 316-371): counts per tier; a file that cannot be
\* read counts in the total only; a failing Firestore read gives 'error'
GetCacheStats(st, t, fbUp) ==
    IF ~fbUp THEN [error |-> TRUE, memory |-> <<0, 0>>, disk |-> <<0, 0>>,
                   firebase |-> <<0, 0>>]
    ELSE [error    |-> FALSE,
          memory   |-> << Cardinality(DOMAIN st.mem),
                          Cardinality({ k \in DOMAIN st.mem :
                                          IsCacheValid(st.mem[k].cached_at, t) }) >>,
          disk     |-> << Cardinality(DOMAIN st.disk),
                          Cardinality({ k \in DOMAIN st.disk :
                                          /\ JsonComplete(st.disk[k])
                                          /\ IsCacheValid(JsonField(st.disk[k], "cached_at"), t) }) >>,
          firebase |-> << Cardinality(DOMAIN st.fb),
                          Cardinality({ k \in DOMAIN st.fb :
                                          IsCacheValid(st.fb[k].cached_at, t) }) >>]

\* get_cache_age (lines 226-271): the age of the first tier that has the
\* key, in hours; -1 stands for None
GetCacheAge(st, city, event_type, t, fbUp) ==
    LET cache_key == CacheKeys[city, event_type] IN
    IF cache_key \in DOMAIN st.mem THEN t - st.mem[cache_key].cached_at
    ELSE IF cache_key \in DOMAIN st.disk /\ JsonComplete(st.disk[cache_key])
    THEN t - JsonField(st.disk[cache_key], "cached_at")
    ELSE IF fbUp /\ cache_key \in DOMAIN st.fb THEN t - st.fb[cache_key].cached_at
    ELSE -1

\* GET /api/cache/stats
Stats(fbUp) ==
    /\ ret' = [op |-> "stats", result |-> GetCacheStats(Store, now, fbUp)]
    /\ UNCHANGED <<now, memory_cache, disk, firebase, tasks, procs>>

\* the handler asks for the age of the entry it served (main.py:566)
CacheAge(city, event_type, fbUp) ==
    /\ ret' = [op |-> "cache_age",
               result |-> GetCacheAge(Store, city, event_type, now, fbUp)]
    /\ UNCHANGED <<now, memory_cache, disk, firebase, tasks, procs>>

FrameNext ==
    \/ \E city \in Cities, event_type \in EventTypes, crawler \in BOOLEAN,
          fbUp \in BOOLEAN, src \in SourceOutcomes, dw \in DiskOutcomes :
            Lookup(city, event_type, crawler, fbUp, src, dw)
    \/ \E city \in Cities, event_type \in EventTypes, events \in EventLists,
          dw \in DiskOutcomes, loop \in BOOLEAN :
            Put(city, event_type, events, dw, loop)
    \/ \E fbUp \in BOOLEAN : RunTask(fbUp)
    \/ Tick
    \/ \E freshHost \in BOOLEAN : Restart(freshHost)
    \/ \E listing \in BOOLEAN, rm \in BOOLEAN, fbo \in FirebaseOutcomes :
            Cleanup(listing, rm, fbo)
    \/ \E fbUp \in BOOLEAN : Stats(fbUp)
    \/ \E city \in Cities, event_type \in EventTypes, fbUp \in BOOLEAN :
            CacheAge(city, event_type, fbUp)

FrameSpec == Init /\ [][FrameNext]_vars

\* the key is in no tier and no Firestore write for it is waiting
AbsentEverywhere(key) ==
    /\ key \notin DOMAIN memory_cache
    /\ key \notin DOMAIN disk
    /\ key \notin DOMAIN firebase
    /\ \A i \in DOMAIN tasks : tasks[i].key # key

\* the step stored the answer of a successful fetch under the key: a lookup
\* whose Listing Source call returned records, or cache_events called with
\* the records a caller fetched
SuccessfulFetchStep(key) ==
    \/ /\ ret'.op = "lookup" /\ ret'.key = key
       /\ ret'.calls = 1 /\ ~ret'.src.raised /\ ret'.src.events # <<>>
    \/ /\ ret'.op = "cache_events" /\ ret'.key = key /\ ret'.events # <<>>

\* C22: a key that was in no tier is made present only by a successful
\* fetch: a lookup that misses, a fetch that fails, the cleanup, the stats
\* and the age report never create an entry.
C22_CreatedOnlyByFetch ==
    [][ \A key \in { CacheKeys[c, e] : c \in Cities, e \in EventTypes } :
           (AbsentEverywhere(key) /\ key \in KnownKeys') => SuccessfulFetchStep(key) ]_vars

\* a lookup whose fetch failed, on a key that was in no tier: it is still
\* in none
C22_Witness ==
    /\ ret.op = "lookup" /\ ret.calls = 1 /\ ret.src.raised
    /\ ret.pre = NoPre
    /\ KnownKeys = {} /\ tasks = <<>>

----------------------------------------------------------------------------
(* One key, with the steps of get_cached_events and cleanup_old_cache on    *)
(* the event loop thread and the steps of cache_events in the worker thread *)
(* of the background fetch taken one at a time.  The two threads share      *)
(* memory_cache and the cache directory and take no lock, so the steps of   *)
(* one fall between the steps of the other.                                 *)

MaxRaceClock == 8   \* the clock of RaceSpec stops here

RaceKey == CHOOSE k \in { CacheKeys[c, e] : c \in Cities, e \in EventTypes } : TRUE

\* the event loop thread is inside get_cached_events or cleanup_old_cache
LoopThreadActive == fg.pc \notin {"idle", "done"}
\* the worker thread is inside cache_events
WorkerActive == fetcher.pc \notin {"idle", "done"}

\* the ghost fields of a call on the event loop thread: whether a
\* cache_events ran while it did, whether it found an entry expired, and
\* what its read of the file gave
CallBegun(op, pc, judged, result) ==
    [pc |-> pc, op |-> op, raced |-> WorkerActive, judged |-> judged,
     disk_read |-> "none", result |-> result]

\* get_cached_events lines 64-76: the memory tier
GetBegin ==
    /\ fg.pc = "idle"
    /\ fg' = IF RaceKey \in DOMAIN memory_cache
             THEN IF IsCacheValid(memory_cache[RaceKey].cached_at, now)
                  THEN CallBegun("get", "done", FALSE, Some(memory_cache[RaceKey].events))
                  ELSE CallBegun("get", "get_mem_del", TRUE, None)
             ELSE CallBegun("get", "get_disk", FALSE, None)
    /\ fetcher' = IF WorkerActive THEN [fetcher EXCEPT !.raced = TRUE] ELSE fetcher
    /\ UNCHANGED <<now, memory_cache, disk, firebase, tasks, ret, sched>>

\* line 75: del self.memory_cache[cache_key]
GetMemDel ==
    /\ fg.pc = "get_mem_del"
    /\ memory_cache' = DictDel(memory_cache, RaceKey)
    /\ fg' = [fg EXCEPT !.pc = "get_disk"]
    /\ UNCHANGED <<now, disk, firebase, tasks, ret, fetcher, sched>>

\* lines 79-94: the file is opened and loaded as it is at this moment; a
\* file that json.load cannot read is logged and the lookup goes on to
\* Firestore
GetDiskRead ==
    /\ fg.pc = "get_disk"
    /\ IF RaceKey \notin DOMAIN disk
       THEN /\ fg' = [fg EXCEPT !.pc = "get_fb", !.disk_read = "absent"]
            /\ UNCHANGED memory_cache
       ELSE IF ~JsonComplete(disk[RaceKey])
       THEN /\ fg' = [fg EXCEPT !.pc = "get_fb", !.disk_read = "torn"]
            /\ UNCHANGED memory_cache
       ELSE IF IsCacheValid(JsonField(disk[RaceKey], "cached_at"), now)
       THEN /\ fg' = [fg EXCEPT !.pc = "done", !.disk_read = "full",
                                !.result = Some(JsonField(disk[RaceKey], "events"))]
            /\ memory_cache' = DictSet(memory_cache, RaceKey, JsonLoad(disk[RaceKey]))
       ELSE /\ fg' = [fg EXCEPT !.pc = "get_disk_rm", !.disk_read = "full",
                                !.judged = TRUE]
            /\ UNCHANGED memory_cache
    /\ UNCHANGED <<now, disk, firebase, tasks, ret, fetcher, sched>>

\* line 91: os.remove(file_path); a file that is gone raises into the
\* except of line 93
GetDiskRemove ==
    /\ fg.pc = "get_disk_rm"
    /\ disk' = DictDel(disk, RaceKey)
    /\ fg' = [fg EXCEPT !.pc = "get_fb"]
    /\ UNCHANGED <<now, memory_cache, firebase, tasks, ret, fetcher, sched>>

\* lines 97-127, called without a crawler: a valid document is copied to
\* memory and disk, anything else gives None
GetFirebase(fbUp) ==
    /\ fg.pc = "get_fb"
    /\ IF fbUp /\ RaceKey \in DOMAIN firebase
            /\ IsCacheValid(firebase[RaceKey].cached_at, now)
       THEN /\ memory_cache' = DictSet(memory_cache, RaceKey, firebase[RaceKey])
            /\ disk' = DictSet(disk, RaceKey, JsonDump(firebase[RaceKey]))
            /\ fg' = [fg EXCEPT !.pc = "done", !.result = Some(firebase[RaceKey].events)]
       ELSE /\ fg' = [fg EXCEPT !.pc = "done", !.result = None]
            /\ UNCHANGED <<memory_cache, disk>>
    /\ UNCHANGED <<now, firebase, tasks, ret, fetcher, sched>>

\* cleanup_old_cache lines 277-279: the expired keys of memory are listed
CleanupBegin ==
    /\ fg.pc = "idle"
    /\ fg' = IF /\ RaceKey \in DOMAIN memory_cache
                /\ ~IsCacheValid(memory_cache[RaceKey].cached_at, now)
             THEN CallBegun("cleanup", "cl_mem_del", TRUE, None)
             ELSE CallBegun("cleanup", "cl_disk", FALSE, None)
    /\ fetcher' = IF WorkerActive THEN [fetcher EXCEPT !.raced = TRUE] ELSE fetcher
    /\ UNCHANGED <<now, memory_cache, disk, firebase, tasks, ret, sched>>

\* lines 281-283
CleanupMemDel ==
    /\ fg.pc = "cl_mem_del"
    /\ memory_cache' = DictDel(memory_cache, RaceKey)
    /\ fg' = [fg EXCEPT !.pc = "cl_disk"]
    /\ UNCHANGED <<now, disk, firebase, tasks, ret, fetcher, sched>>

\* lines 286-297 and 300-301: the file is loaded and judged
CleanupDiskRead ==
    /\ fg.pc = "cl_disk"
    /\ fg' = IF RaceKey \notin DOMAIN disk
             THEN [fg EXCEPT !.pc = "cl_fb", !.disk_read = "absent"]
             ELSE IF ~JsonComplete(disk[RaceKey])
             THEN [fg EXCEPT !.pc = "cl_fb", !.disk_read = "torn"]
             ELSE IF IsCacheValid(JsonField(disk[RaceKey], "cached_at"), now)
             THEN [fg EXCEPT !.pc = "cl_fb", !.disk_read = "full"]
             ELSE [fg EXCEPT !.pc = "cl_disk_rm", !.disk_read = "full", !.judged = TRUE]
    /\ UNCHANGED <<now, memory_cache, disk, firebase, tasks, ret, fetcher, sched>>

\* line 298: os.remove(file_path)
CleanupDiskRemove ==
    /\ fg.pc = "cl_disk_rm"
    /\ disk' = DictDel(disk, RaceKey)
    /\ fg' = [fg EXCEPT !.pc = "cl_fb"]
    /\ UNCHANGED <<now, memory_cache, firebase, tasks, ret, fetcher, sched>>

\* lines 303-309: the expired documents are deleted
CleanupFirestoreStep(fbUp) ==
    /\ fg.pc = "cl_fb"
    /\ firebase' = IF fbUp /\ RaceKey \in DOMAIN firebase
                         /\ ~IsCacheValid(firebase[RaceKey].cached_at, now)
                   THEN DictDel(firebase, RaceKey) ELSE firebase
    /\ fg' = [fg EXCEPT !.pc = "done"]
    /\ UNCHANGED <<now, memory_cache, disk, tasks, ret, fetcher, sched>>

\* the call returns to the handler
LoopThreadReturns ==
    /\ fg.pc = "done"
    /\ fg' = Idle
    /\ UNCHANGED <<now, memory_cache, disk, firebase, tasks, ret, fetcher, sched>>

\* cache_events lines 191-201 in the worker thread: the entry is built and
\* put in memory
PutMemory(city, event_type, events) ==
    /\ fetcher.pc = "idle"
    /\ CacheKeys[city, event_type] = RaceKey
    /\ LET cache_data == [city |-> city, event_type |-> event_type,
                          events |-> events, cached_at |-> now,
                          count |-> Len(events)]
       IN  /\ memory_cache' = DictSet(memory_cache, RaceKey, cache_data)
           /\ fetcher' = [pc |-> "put_open", data |-> cache_data,
                          raced |-> LoopThreadActive, over |-> FALSE]
    /\ fg' = IF LoopThreadActive THEN [fg EXCEPT !.raced = TRUE] ELSE fg
    /\ UNCHANGED <<now, disk, firebase, tasks, ret, sched>>

\* _save_cache_to_disk line 56: open(file_path, 'w') leaves the file empty
PutOpen ==
    /\ fetcher.pc = "put_open"
    /\ disk' = DictSet(disk, RaceKey, <<>>)
    /\ fetcher' = [fetcher EXCEPT !.pc = "put_dump",
                      !.over = RaceKey \in DOMAIN disk /\ JsonComplete(disk[RaceKey])]
    /\ UNCHANGED <<now, memory_cache, firebase, tasks, ret, fg, sched>>

\* line 57: json.dump and the close of the file; then asyncio.create_task
\* raises in the worker thread and cache_events returns False (lines 207,
\* 212-214)
PutDump ==
    /\ fetcher.pc = "put_dump"
    /\ disk' = DictSet(disk, RaceKey, JsonDump(fetcher.data))
    /\ fetcher' = [fetcher EXCEPT !.pc = "done"]
    /\ UNCHANGED <<now, memory_cache, firebase, tasks, ret, fg, sched>>

\* the worker thread goes on to its next pair
WorkerReturns ==
    /\ fetcher.pc = "done"
    /\ fetcher' = Idle
    /\ UNCHANGED <<now, memory_cache, disk, firebase, tasks, ret, fg, sched>>

\* time passes between the calls
RaceTick ==
    /\ ~LoopThreadActive /\ ~WorkerActive
    /\ now + REFRESH_INTERVAL_HOURS <= MaxRaceClock
    /\ now' = now + REFRESH_INTERVAL_HOURS
    /\ UNCHANGED <<memory_cache, disk, firebase, tasks, ret, procs>>

RaceNext ==
    \/ GetBegin
    \/ GetMemDel
    \/ GetDiskRead
    \/ GetDiskRemove
    \/ \E fbUp \in BOOLEAN : GetFirebase(fbUp)
    \/ CleanupBegin
    \/ CleanupMemDel
    \/ CleanupDiskRead
    \/ CleanupDiskRemove
    \/ \E fbUp \in BOOLEAN : CleanupFirestoreStep(fbUp)
    \/ LoopThreadReturns
    \/ \E city \in Cities, event_type \in EventTypes, events \in EventLists \ {<<>>} :
            PutMemory(city, event_type, events)
    \/ PutOpen
    \/ PutDump
    \/ WorkerReturns
    \/ RaceTick

RaceSpec == Init /\ [][RaceNext]_vars

\* a cache_events and a get or cleanup that found an entry expired ran at
\* the same time, and both have finished
RaceOver ==
    /\ fg.pc = "done" /\ fetcher.pc = "done"
    /\ fg.raced /\ fetcher.raced
    /\ fg.judged

\* C23: when put(k, e_new) ran concurrently with a get or a cleanup that
\* judged the previous entry expired, then once both have finished memory
\* and disk hold e_new.
C23_LaterWritesWin ==
    RaceOver =>
        /\ RaceKey \in DOMAIN memory_cache
        /\ memory_cache[RaceKey] = fetcher.data
        /\ RaceKey \in DOMAIN disk
        /\ disk[RaceKey] = JsonDump(fetcher.data)

\* C24: a get that reads the file of a key while a put is writing over a
\* complete file of that key never finds a file it cannot load.
C24_NoTornDiskRead ==
    ~ ( /\ fg.pc = "get_fb" /\ fg.op = "get" /\ fg.disk_read = "torn"
        /\ fetcher.pc = "put_dump" /\ fetcher.over )

----------------------------------------------------------------------------
(* The Firestore write of cache_events with Firestore reachable: puts from  *)
(* a coroutine and from the worker thread, and the event loop, which runs   *)
(* every task it was given.                                                 *)

RemoteNext ==
    \/ \E city \in Cities, event_type \in EventTypes, events \in EventLists,
          loop \in BOOLEAN :
            Put(city, event_type, events, "ok", loop)
    \/ RunTask(TRUE)
    \/ Tick

\* asyncio runs a task that is ready
RemoteSpec == Init /\ [][RemoteNext]_vars /\ WF_vars(RunTask(TRUE))

\* C25: after every put(k, e) that wrote memory and disk, Firestore being
\* reachable, the remote tier eventually holds e or a later entry for k,
\* whether the put was called on the event loop or in a worker thread.
C25_EventualRemoteWrite ==
    \A t \in 0..MaxTime :
        ( /\ ret.op = "cache_events"
          /\ ret.key \in DOMAIN memory_cache
          /\ memory_cache[ret.key].cached_at = t
          /\ ret.key \in DOMAIN disk /\ JsonComplete(disk[ret.key]) )
        ~> ( \E k \in DOMAIN firebase : firebase[k].cached_at >= t )

\* the same for the puts made where an event loop is running
RemoteWriteFromLoop ==
    \A t \in 0..MaxTime :
        ( /\ ret.op = "cache_events" /\ ret.loop
          /\ ret.key \in DOMAIN memory_cache
          /\ memory_cache[ret.key].cached_at = t )
        ~> ( \E k \in DOMAIN firebase : firebase[k].cached_at >= t )

----------------------------------------------------------------------------
(* C27 *)

\* C27: whenever memory and disk both hold an entry for a key, the two
\* entries have the same cached_at and the same records, also after a disk
\* write that failed and whose failure _save_cache_to_disk dropped.
C27_LocalTiersAgree ==
    \A key \in DOMAIN memory_cache \cap DOMAIN disk :
        \A m \in MemNow(key), d \in DiskNow(key) :
            m.cached_at = d.cached_at /\ m.events = d.events

----------------------------------------------------------------------------
(* Steady state: the process of main.py with its scheduler running, a       *)
(* Listing Source that returns records to every call of a sweep, and        *)
(* foreground lookups of the supported pairs.  As in StartSpec a run of      *)
(* fetch_all_events ends within the hour it began.                          *)

MaxSteadyHours == 9   \* SteadySpec follows the process for so many hours

\* the process comes up on the second day, in the hours of one period, so
\* that the Listing Source has records that are over
SteadyFirstHour == HoursPerDay + REFRESH_INTERVAL_HOURS

\* what the Listing Source returns to a sweep: a record still to come, or
\* one that is over
SteadyAnswers == { SourceReturn(<<Tomorrow>>), SourceReturn(<<Yesterday>>) }

\* fg.skipped is not program state: it remembers the pairs for which some
\* sweep stored nothing
SteadyInit ==
    /\ now \in SteadyFirstHour..(SteadyFirstHour + REFRESH_INTERVAL_HOURS - 1)
    /\ memory_cache = EmptyDict /\ disk = EmptyDict /\ firebase = EmptyDict
    /\ tasks = <<>>
    /\ ret = [op |-> "none"]
    /\ fg = [pc |-> "idle", skipped |-> {}]
    /\ fetcher = Idle /\ sched = Idle

\* background_fetcher.py lines 48-80, one pass of the inner loop
SteadyFetchPair(src) ==
    /\ fetcher.pc = "pairs" /\ fetcher.i <= Len(SupportedPairs)
    /\ LET r == PairOutcome(fetcher, Store, src, now, "ok")
       IN  /\ fetcher' = [r.f EXCEPT !.answers = <<>>]
           /\ Commit(r.st)
           /\ fg' = IF r.stores THEN fg
                    ELSE [fg EXCEPT !.skipped = @ \cup {fetcher.i}]
    /\ UNCHANGED <<now, ret, sched>>

\* lines 82-102 and main.py:199-203: the summary is returned and logged,
\* and the thread is free again
SteadySweepEnds ==
    /\ fetcher.pc = "pairs" /\ fetcher.i > Len(SupportedPairs)
    /\ fetcher' = Idle
    /\ UNCHANGED <<now, memory_cache, disk, firebase, tasks, ret, fg, sched>>

\* a chat request for a supported pair: get_cached_events with the
\* crawler.  What a foreground call of the Listing Source gets plays no
\* part in what follows: here it raises, so a miss leaves the store as it
\* was.
SteadyLookup(k, fbUp) ==
    /\ sched.pc = "running"
    /\ Lookup(SupportedPairs[k].city, SupportedPairs[k].event_type, TRUE,
              fbUp, SourceRaise, "ok")

\* an hour passes
SteadyHour ==
    /\ now < SteadyFirstHour + MaxSteadyHours
    /\ sched.pc # "idle"
    /\ sched.initial # "queued"
    /\ ~CronDue
    /\ fetcher.pc \in {"idle", "done"}
    /\ now' = now + 1
    /\ ret' = [op |-> "hour"]
    /\ UNCHANGED <<memory_cache, disk, firebase, tasks, procs>>

SteadyNext ==
    \/ StartupEvent(TRUE)
    \/ InitialFetchRuns(TRUE)
    \/ CronFires(TRUE)
    \/ \E src \in SteadyAnswers : SteadyFetchPair(src)
    \/ SteadySweepEnds
    \/ \E k \in DOMAIN SupportedPairs, fbUp \in BOOLEAN : SteadyLookup(k, fbUp)
    \/ SteadyHour

SteadySpec == SteadyInit /\ [][SteadyNext]_vars

\* the run queued at startup has ended
FirstSweepDone ==
    /\ sched.pc = "running"
    /\ \/ Len(sched.sweeps) >= 2
       \/ Len(sched.sweeps) = 1 /\ fetcher.pc = "idle"

\* the step is a lookup: every other step moves the clock, the fetcher or
\* the scheduler, or ends with ret naming another operation
LookupStep ==
    /\ ret'.op = "lookup"
    /\ now' = now /\ fetcher' = fetcher /\ sched' = sched

\* the lookup was answered from a tier and called the Listing Source not once
ServedFromCache == ret.calls = 0 /\ ~ret.result.none

\* the pair the last lookup was for
LookedUp == { k \in DOMAIN SupportedPairs :
                CacheKeys[SupportedPairs[k].city, SupportedPairs[k].event_type] = ret.key }

\* C26 as stated: the Listing Source returning records to every call of
\* every sweep, once the first sweep has ended every lookup of a supported
\* pair is served from the cache without a Listing Source call.
C26_SteadyStateHits ==
    [][ (FirstSweepDone /\ LookupStep) => ServedFromCache' ]_vars

\* C26 amended: the same for the pairs for which every sweep so far got at
\* least one record that the past-events filter kept.
C26_SteadyStateHitsWhenKept ==
    [][ (FirstSweepDone /\ LookupStep /\ LookedUp' \cap fg.skipped = {})
            => ServedFromCache' ]_vars

\* a lookup served from the cache in an hour when the entry of the first
\* sweep is past its TTL: a later sweep has replaced it
C26_Witness ==
    /\ FirstSweepDone /\ ret.op = "lookup" /\ LookedUp \cap fg.skipped = {}
    /\ ServedFromCache
    /\ now >= sched.started_at + CACHE_TTL_HOURS

====
